---------------------------- MODULE Spec2Model ----------------------------
(***************************************************************************)
(* Intranet login backend: credential verification against the Oracle user *)
(* table, JWT issuance / verification / refresh, and the require_auth      *)
(* access guard.                                                           *)
(*                                                                         *)
(* Python values are modelled with their dynamic type: a value is a record *)
(* [t |-> type tag, v |-> content].  A Python str is a sequence of         *)
(* one-character strings, so that strip(), upper() and the validator's     *)
(* regular expression are computed character by character.                 *)
(*                                                                         *)
(* The clock counts ticks; TicksPerSecond ticks make one second.  A        *)
(* datetime is a tick count, a JWT NumericDate is a whole number of        *)
(* seconds.                                                                *)
(***************************************************************************)
EXTENDS Integers, Sequences, FiniteSets, TLC

(* ---------------------------- bounds ----------------------------------- *)

\* resolution of the modelled clock below one second
TicksPerSecond == 2

\* how many times the clock advances in a behaviour
MaxTicks == 2

\* how many tokens the service issues in a behaviour
MaxIssued == 2

(* ------------------------- program constants --------------------------- *)

\* AppConfig.jwt_expiration_hours
JwtExpirationHours == 24

\* timedelta(hours=...)
SecondsPerHour == 3600

\* validate_login_data: len(cd_usuario_str) > 30
MaxUserLen == 30

\* validate_login_data: len(password_str) > 100
MaxPasswordLen == 100

\* validate_login_data: empresa_int > 9999
MaxEmpresa == 9999

\* AppConfig.secret_key, the HS256 signing key of the process
SecretKey == "dev-secret-change-in-production"

\* the values JWT_EXPIRATION_HOURS is configured with
TtlChoices == {1, JwtExpirationHours}

(* --------------------------- Python values ----------------------------- *)

PyStr(s) == [t |-> "str", v |-> s]

PyInt(n) == [t |-> "int", v |-> n]

\* a finite float, given in halves: PyFloat(3) is 1.5
PyFloat(h) == [t |-> "float", v |-> h]

\* float('inf'), which json.loads accepts as Infinity
PyInf == [t |-> "inf", v |-> 0]

PyNone == [t |-> "none", v |-> 0]

\* a bytes value, as the driver returns for a RAW column
PyBytes(b) == [t |-> "bytes", v |-> b]

\* bool(x)
Truthy(x) ==
    CASE x.t = "none" -> FALSE
      [] x.t = "str" -> x.v # <<>>
      [] x.t = "int" -> x.v # 0
      [] x.t = "float" -> x.v # 0
      [] OTHER -> TRUE

\* a or b
PyOr(a, b) == IF Truthy(a) THEN a ELSE b

LowerLetters ==
    <<"a","b","c","d","e","f","g","h","i","j","k","l","m",
      "n","o","p","q","r","s","t","u","v","w","x","y","z">>

UpperLetters ==
    <<"A","B","C","D","E","F","G","H","I","J","K","L","M",
      "N","O","P","Q","R","S","T","U","V","W","X","Y","Z">>

DigitChars == <<"0","1","2","3","4","5","6","7","8","9">>

IndexIn(seq, c) ==
    IF \E i \in 1..Len(seq) : seq[i] = c
    THEN CHOOSE i \in 1..Len(seq) : seq[i] = c
    ELSE 0

LowerSet == {LowerLetters[i] : i \in 1..Len(LowerLetters)}

UpperSet == {UpperLetters[i] : i \in 1..Len(UpperLetters)}

DigitSet == {DigitChars[i] : i \in 1..Len(DigitChars)}

UpperMap == [c \in LowerSet |-> UpperLetters[IndexIn(LowerLetters, c)]]

LowerMap == [c \in UpperSet |-> LowerLetters[IndexIn(UpperLetters, c)]]

DigitMap == [c \in DigitSet |-> IndexIn(DigitChars, c) - 1]

UpperChar(c) == IF c \in LowerSet THEN UpperMap[c] ELSE c

LowerChar(c) == IF c \in UpperSet THEN LowerMap[c] ELSE c

\* str.upper()
Upper(s) == [i \in 1..Len(s) |-> UpperChar(s[i])]

\* str.lower()
Lower(s) == [i \in 1..Len(s) |-> LowerChar(s[i])]

IsSpace(c) == c = " "

RECURSIVE LStrip(_)
LStrip(s) == IF s # <<>> /\ IsSpace(Head(s)) THEN LStrip(Tail(s)) ELSE s

RECURSIVE RStrip(_)
RStrip(s) ==
    IF s # <<>> /\ IsSpace(s[Len(s)]) THEN RStrip(SubSeq(s, 1, Len(s) - 1)) ELSE s

\* str.strip()
Strip(s) == RStrip(LStrip(s))

RECURSIVE Digits(_)
Digits(n) ==
    IF n < 0 THEN <<"-">> \o Digits(0 - n)
    ELSE IF n < 10 THEN <<DigitChars[n + 1]>>
    ELSE Digits(n \div 10) \o <<DigitChars[(n % 10) + 1]>>

\* str(x)
StrOf(x) ==
    CASE x.t = "str" -> x.v
      [] x.t = "int" -> Digits(x.v)
      [] x.t = "none" -> <<"N","o","n","e">>
      [] x.t = "float" -> Digits(x.v \div 2) \o <<".">> \o (IF x.v % 2 = 0 THEN <<"0">> ELSE <<"5">>)
      [] OTHER -> <<"i","n","f">>

IsDigitStr(s) == s # <<>> /\ \A i \in 1..Len(s) : s[i] \in DigitSet

RECURSIVE DigitsValue(_)
DigitsValue(s) ==
    IF s = <<>> THEN 0
    ELSE 10 * DigitsValue(SubSeq(s, 1, Len(s) - 1)) + DigitMap[s[Len(s)]]

\* int(x): [err |-> "" | "ValueError" | "TypeError" | "OverflowError", v |-> the integer]
IntOf(x) ==
    CASE x.t = "int" -> [err |-> "", v |-> x.v]
      [] x.t = "float" ->
            [err |-> "", v |-> IF x.v >= 0 THEN x.v \div 2 ELSE 0 - ((0 - x.v) \div 2)]
      [] x.t = "inf" -> [err |-> "OverflowError", v |-> 0]
      [] x.t = "none" -> [err |-> "TypeError", v |-> 0]
      [] OTHER ->
            LET s == Strip(x.v) IN
            IF IsDigitStr(s) THEN [err |-> "", v |-> DigitsValue(s)]
            ELSE IF Len(s) > 1 /\ s[1] = "-" /\ IsDigitStr(Tail(s))
                 THEN [err |-> "", v |-> 0 - DigitsValue(Tail(s))]
                 ELSE [err |-> "ValueError", v |-> 0]

\* re.match(r'^[A-Za-z0-9_]+$', s)
IsWordChar(c) == c \in LowerSet \cup UpperSet \cup DigitSet \cup {"_"}

MatchesUserPattern(s) == s # <<>> /\ \A i \in 1..Len(s) : IsWordChar(s[i])


(* ------------------------------ state ---------------------------------- *)

VARIABLES
    app_config, \* AppConfig.from_env(): the signing key and the token lifetime
    auth_service, \* the class of the instance bound to the name auth_service in
                \* decorators.py and in auth_routes.py
    usuarios,   \* the rows of dbasgu.usuarios, in table order
    now,        \* the clock, in ticks
    ticks,      \* how many times the clock has advanced
    issued,     \* the tokens handed out, each with the claims it was generated from
    loggedOut,  \* history: the issued tokens a logout request has carried
    refreshed,  \* history: the tokens a successful refresh has taken as its input
    last,       \* the request served last: its input, its response and what it did
    reqs,       \* the request each worker thread is serving, and how far it has got
    ctx         \* flask.g: the request context of each worker thread

vars == <<app_config, auth_service, usuarios, now, ticks, issued, loggedOut, refreshed, last, reqs, ctx>>

(* ------------------------- credential store ---------------------------- *)

\* the user table the service starts against
InitialUsuarios ==
    << [cd_usuario |-> PyStr(<<"F","1">>), nm_usuario |-> PyStr(<<"A","n","a">>),
        cd_papel |-> PyStr(<<"A","D","M","I","N">>), sn_ativo |-> PyStr(<<"S">>),
        cd_senha |-> PyStr(<<"p">>)],
       [cd_usuario |-> PyStr(<<"g","2">>), nm_usuario |-> PyNone,
        cd_papel |-> PyNone, sn_ativo |-> PyStr(<<"S">>),
        cd_senha |-> PyStr(<<"q">>)],
       [cd_usuario |-> PyStr(<<"H","3">>), nm_usuario |-> PyStr(<<"H","u","g","o">>),
        cd_papel |-> PyStr(<<"u","s","e","r">>), sn_ativo |-> PyStr(<<"N">>),
        cd_senha |-> PyStr(<<"p">>)],
       [cd_usuario |-> PyStr(<<"K","4">>), nm_usuario |-> PyBytes(<<"K","i","m">>),
        cd_papel |-> PyStr(<<"u","s","e","r">>), sn_ativo |-> PyStr(<<"S">>),
        cd_senha |-> PyStr(<<"p">>)],
       [cd_usuario |-> PyStr(<<"M","5">>), nm_usuario |-> PyStr(<<"M","e","l">>),
        cd_papel |-> PyStr(<<>>), sn_ativo |-> PyStr(<<"S">>),
        cd_senha |-> PyStr(<<"p">>)],
       [cd_usuario |-> PyStr(<<"N","6">>), nm_usuario |-> PyStr(<<"N","e","y">>),
        cd_papel |-> PyInt(7), sn_ativo |-> PyStr(<<"S">>),
        cd_senha |-> PyStr(<<"p">>)],
       [cd_usuario |-> PyStr(<<"O","7">>), nm_usuario |-> PyStr(<<"O","t","o">>),
        cd_papel |-> PyInt(0), sn_ativo |-> PyStr(<<"S">>),
        cd_senha |-> PyStr(<<"p">>)] >>

\* WHERE UPPER(cd_usuario) = UPPER(:cd_usuario) AND ROWNUM = 1
SelectUsuario(table, cd_usuario) ==
    LET hits == {i \in 1..Len(table) : Upper(StrOf(table[i].cd_usuario)) = Upper(cd_usuario)}
    IN  IF hits = {} THEN <<>>
        ELSE <<table[CHOOSE i \in hits : \A j \in hits : i <= j]>>

\* db.execute_query: the rows as dicts keyed by lower-cased column names, or
\* the exception of a pool that is not initialised / a failing connection
execute_query(table, cd_usuario, dbOk) ==
    IF dbOk THEN [err |-> "", rows |-> SelectUsuario(table, cd_usuario)]
    ELSE [err |-> "RuntimeError", rows |-> <<>>]

\* dict.get(key)
RowGet(row, key) == IF key \in DOMAIN row THEN row[key] ELSE PyNone

(* ----------------------------- responses ------------------------------- *)

\* error_response that leaves the error code out of the body
error_response_uncoded(message, code, error_code, ts) ==
    [status |-> code, success |-> FALSE, message |-> message,
     error_code |-> "", data |-> PyNone, timestamp |-> ts]

error_response(message, code, error_code, ts) ==
    [status |-> code, success |-> FALSE, message |-> message,
     error_code |-> error_code, data |-> PyNone, timestamp |-> ts]

success_response(data, message, ts) ==
    [status |-> 200, success |-> TRUE, message |-> message,
     error_code |-> "", data |-> data, timestamp |-> ts]

(* ----------------------------- validators ------------------------------ *)

\* validate_empresa with the positivity test written as < 0
validate_empresa_zero_passes(cd_multi_empresa) ==
    LET empresa == IntOf(cd_multi_empresa)
        Msg(m) == [err |-> "", msg |-> m]
    IN  IF cd_multi_empresa.t = "none" THEN Msg("Campo 'cdMultiEmpresa' e obrigatorio")
        ELSE IF empresa.err \in {"ValueError", "TypeError"}
            THEN Msg("Campo 'cdMultiEmpresa' deve ser um numero inteiro")
        ELSE IF empresa.err # "" THEN [err |-> empresa.err, msg |-> ""]
        ELSE IF empresa.v < 0 THEN Msg("Campo 'cdMultiEmpresa' deve ser um numero positivo")
        ELSE IF empresa.v > MaxEmpresa
            THEN Msg("Campo 'cdMultiEmpresa' deve ser menor que 10000")
        ELSE Msg("")

\* validate_login_data, the cd_multi_empresa part
validate_empresa(cd_multi_empresa) ==
    LET empresa == IntOf(cd_multi_empresa)
        Msg(m) == [err |-> "", msg |-> m]
    IN  IF cd_multi_empresa.t = "none" THEN Msg("Campo 'cdMultiEmpresa' e obrigatorio")
        ELSE IF empresa.err \in {"ValueError", "TypeError"}
            THEN Msg("Campo 'cdMultiEmpresa' deve ser um numero inteiro")
        ELSE IF empresa.err # "" THEN [err |-> empresa.err, msg |-> ""]
        ELSE IF empresa.v <= 0 THEN Msg("Campo 'cdMultiEmpresa' deve ser um numero positivo")
        ELSE IF empresa.v > MaxEmpresa
            THEN Msg("Campo 'cdMultiEmpresa' deve ser menor que 10000")
        ELSE Msg("")

\* validate_login_data: [err |-> the exception that escapes, msg |-> the message, "" for None]
validate_login_data(cd_usuario, password, cd_multi_empresa) ==
    LET cd_usuario_str == Strip(StrOf(cd_usuario))
        password_str == Strip(StrOf(password))
        Msg(m) == [err |-> "", msg |-> m]
    IN  IF ~Truthy(cd_usuario) THEN Msg("Campo 'cdUsuario' e obrigatorio")
        ELSE IF cd_usuario_str = <<>> THEN Msg("Campo 'cdUsuario' nao pode estar vazio")
        ELSE IF Len(cd_usuario_str) > MaxUserLen
            THEN Msg("Campo 'cdUsuario' deve ter no maximo 30 caracteres")
        ELSE IF ~MatchesUserPattern(cd_usuario_str)
            THEN Msg("Campo 'cdUsuario' deve conter apenas letras, numeros e underscore")
        ELSE IF ~Truthy(password) THEN Msg("Campo 'password' e obrigatorio")
        ELSE IF password_str = <<>> THEN Msg("Campo 'password' nao pode estar vazio")
        ELSE IF Len(password_str) > MaxPasswordLen THEN Msg("Campo 'password' muito longo")
        ELSE validate_empresa(cd_multi_empresa)

(* -------------------------------- JWT ---------------------------------- *)

\* datetime.utcnow() read at tick tk
PyDatetime(tk) == [t |-> "datetime", v |-> tk]

\* timedelta(hours=h), in ticks
timedelta_hours(h) == h * SecondsPerHour * TicksPerSecond

\* timegm(dt.utctimetuple()): the whole seconds of a datetime
timegm(dt) == dt.v \div TicksPerSecond

\* datetime.now(tz=timezone.utc).timestamp() >= s, for a whole number s of seconds
AtOrAfter(tk, s) == s * TicksPerSecond <= tk

ClaimKeys == {"cd_usuario", "nome_usuario", "cd_multi_empresa", "nome_empresa", "perfil"}

TimeKeys == {"iat", "exp"}

JsonSerializable(x) == x.t \in {"str", "int", "float", "none"}

\* HMAC-SHA256 over header and body: only the holder of key can produce it
HS256(key, header, body) == [key |-> key, header |-> header, body |-> body]

JwtHeader == [alg |-> "HS256", typ |-> "JWT"]

\* jwt_encode with every integer claim serialised as a JSON string
jwt_encode_stringly(payload, key) ==
    LET body == [k \in DOMAIN payload |->
                    IF k \in TimeKeys /\ payload[k].t = "datetime"
                    THEN PyInt(timegm(payload[k]))
                    ELSE IF payload[k].t = "int" THEN PyStr(Digits(payload[k].v))
                    ELSE payload[k]]
    IN  IF \E k \in DOMAIN body : ~JsonSerializable(body[k])
        THEN [err |-> "TypeError", token |-> PyNone]
        ELSE [err |-> "",
              token |-> [kind |-> "jwt", header |-> JwtHeader, body |-> body,
                         sig |-> HS256(key, JwtHeader, body)]]

\* jwt.encode(payload, key, algorithm='HS256'): datetimes under exp / iat become
\* NumericDates, everything else is serialised as JSON
jwt_encode(payload, key) ==
    LET body == [k \in DOMAIN payload |->
                    IF k \in TimeKeys /\ payload[k].t = "datetime"
                    THEN PyInt(timegm(payload[k]))
                    ELSE payload[k]]
    IN  IF \E k \in DOMAIN body : ~JsonSerializable(body[k])
        THEN [err |-> "TypeError", token |-> PyNone]
        ELSE [err |-> "",
              token |-> [kind |-> "jwt", header |-> JwtHeader, body |-> body,
                         sig |-> HS256(key, JwtHeader, body)]]

\* jwt_decode with the expiry test of PyJWT 1.x, exp < now
jwt_decode_exp_inclusive(token, key, tk) ==
    LET Fail(e) == [err |-> e, payload |-> PyNone] IN
    IF token.kind # "jwt" THEN Fail("DecodeError")
    ELSE IF token.header.alg # "HS256" THEN Fail("InvalidAlgorithmError")
    ELSE IF token.sig # HS256(key, token.header, token.body) THEN Fail("InvalidSignatureError")
    ELSE IF "iat" \in DOMAIN token.body /\ ~AtOrAfter(tk, token.body.iat.v)
        THEN Fail("ImmatureSignatureError")
    ELSE IF "exp" \in DOMAIN token.body /\ token.body.exp.v * TicksPerSecond < tk
        THEN Fail("ExpiredSignatureError")
    ELSE [err |-> "", payload |-> token.body]

\* jwt.decode(token, key, algorithms=['HS256']) at tick tk (PyJWT 2.8.0)
jwt_decode(token, key, tk) ==
    LET Fail(e) == [err |-> e, payload |-> PyNone] IN
    IF token.kind # "jwt" THEN Fail("DecodeError")
    ELSE IF token.header.alg # "HS256" THEN Fail("InvalidAlgorithmError")
    ELSE IF token.sig # HS256(key, token.header, token.body) THEN Fail("InvalidSignatureError")
    ELSE IF "iat" \in DOMAIN token.body /\ ~AtOrAfter(tk, token.body.iat.v)
        THEN Fail("ImmatureSignatureError")
    ELSE IF "exp" \in DOMAIN token.body /\ AtOrAfter(tk, token.body.exp.v)
        THEN Fail("ExpiredSignatureError")
    ELSE [err |-> "", payload |-> token.body]

(* ---------------------------- AuthService ------------------------------ *)

\* user_data_from_row that lower-cases a role tag given as text
user_data_from_row_lowers_role(user_row, cd_usuario, password, cd_multi_empresa) ==
    LET None(cause) == [user_data |-> PyNone, cause |-> cause, queries |-> 1]
        cd_usuario_db == PyOr(PyOr(RowGet(user_row, "cd_usuario"),
                                   RowGet(user_row, "CD_USUARIO")), PyStr(cd_usuario))
        nm_usuario_db == PyOr(PyOr(RowGet(user_row, "nm_usuario"),
                                   RowGet(user_row, "NM_USUARIO")), PyStr(cd_usuario))
        cd_papel_db == PyOr(PyOr(RowGet(user_row, "cd_papel"),
                                 RowGet(user_row, "CD_PAPEL")), PyStr(<<"u","s","e","r">>))
        sn_ativo_db == PyOr(PyOr(RowGet(user_row, "sn_ativo"),
                                 RowGet(user_row, "SN_ATIVO")), PyStr(<<"N">>))
        cd_senha_db == PyOr(RowGet(user_row, "cd_senha"), RowGet(user_row, "CD_SENHA"))
    IN  IF sn_ativo_db # PyStr(<<"S">>) THEN None("inactive")
        ELSE IF cd_senha_db = PyNone THEN None("no_password")
        ELSE IF Strip(StrOf(cd_senha_db)) # Strip(password) THEN None("mismatch")
        ELSE [user_data |->
                  [cd_usuario |-> cd_usuario_db,
                   nome_usuario |-> PyOr(nm_usuario_db, cd_usuario_db),
                   cd_multi_empresa |-> PyInt(cd_multi_empresa),
                   nome_empresa |-> PyStr(<<"E","m","p","r","e","s","a"," ">>
                                            \o Digits(cd_multi_empresa)),
                   perfil |-> IF cd_papel_db.t = "str" THEN PyStr(Lower(cd_papel_db.v))
                              ELSE cd_papel_db,
                   ativo |-> TRUE,
                   ultimo_acesso |-> PyNone],
              cause |-> "ok", queries |-> 1]

\* _validate_user_in_oracle, from the first row of the result on: the checks of
\* the active flag and of the secret, and the UserData built from the row
user_data_from_row(user_row, cd_usuario, password, cd_multi_empresa) ==
    LET None(cause) == [user_data |-> PyNone, cause |-> cause, queries |-> 1]
        cd_usuario_db == PyOr(PyOr(RowGet(user_row, "cd_usuario"),
                                   RowGet(user_row, "CD_USUARIO")), PyStr(cd_usuario))
        nm_usuario_db == PyOr(PyOr(RowGet(user_row, "nm_usuario"),
                                   RowGet(user_row, "NM_USUARIO")), PyStr(cd_usuario))
        cd_papel_db == PyOr(PyOr(RowGet(user_row, "cd_papel"),
                                 RowGet(user_row, "CD_PAPEL")), PyStr(<<"u","s","e","r">>))
        sn_ativo_db == PyOr(PyOr(RowGet(user_row, "sn_ativo"),
                                 RowGet(user_row, "SN_ATIVO")), PyStr(<<"N">>))
        cd_senha_db == PyOr(RowGet(user_row, "cd_senha"), RowGet(user_row, "CD_SENHA"))
    IN  IF sn_ativo_db # PyStr(<<"S">>) THEN None("inactive")
        ELSE IF cd_senha_db = PyNone THEN None("no_password")
        ELSE IF Strip(StrOf(cd_senha_db)) # Strip(password) THEN None("mismatch")
        ELSE [user_data |->
                  [cd_usuario |-> cd_usuario_db,
                   nome_usuario |-> PyOr(nm_usuario_db, cd_usuario_db),
                   cd_multi_empresa |-> PyInt(cd_multi_empresa),
                   nome_empresa |-> PyStr(<<"E","m","p","r","e","s","a"," ">>
                                            \o Digits(cd_multi_empresa)),
                   perfil |-> PyOr(cd_papel_db, PyStr(<<"u","s","e","r">>)),
                   ativo |-> TRUE,
                   ultimo_acesso |-> PyNone],
              cause |-> "ok", queries |-> 1]

\* _validate_user_in_oracle: the UserData or None, with the branch taken and
\* the number of store queries made
validate_user_in_oracle(table, cd_usuario, password, cd_multi_empresa, dbOk) ==
    LET result == execute_query(table, cd_usuario, dbOk)
        None(cause) == [user_data |-> PyNone, cause |-> cause, queries |-> 1]
    IN  IF result.err # "" THEN None("store_error")
        ELSE IF result.rows = <<>> THEN None("not_found")
        ELSE user_data_from_row(result.rows[1], cd_usuario, password, cd_multi_empresa)

\* _generate_jwt_token, its two datetime.utcnow() reads at ticks t1 <= t2
generate_jwt_token(user_data, t1, t2) ==
    jwt_encode([cd_usuario |-> user_data.cd_usuario,
                nome_usuario |-> user_data.nome_usuario,
                cd_multi_empresa |-> user_data.cd_multi_empresa,
                nome_empresa |-> user_data.nome_empresa,
                perfil |-> user_data.perfil,
                iat |-> PyDatetime(t1),
                exp |-> PyDatetime(t2 + timedelta_hours(app_config.jwt_expiration_hours))],
               app_config.secret_key)

AuthFailure(error, code, cause, queries) ==
    [success |-> FALSE, error |-> error, code |-> code, token |-> PyNone,
     user |-> PyNone, cause |-> cause, queries |-> queries]

\* InvalidCredentials with an answer of its own for an inactive record
InvalidCredentials_inactive_told(v) ==
    IF v.cause = "inactive"
    THEN AuthFailure("Usuario inativo", "USER_INACTIVE", v.cause, v.queries)
    ELSE AuthFailure("Credenciais invalidas ou usuario inativo", "INVALID_CREDENTIALS",
                     v.cause, v.queries)

\* authenticate, `if not user_data`: one answer whatever made the lookup return None
InvalidCredentials(v) ==
    AuthFailure("Credenciais invalidas ou usuario inativo", "INVALID_CREDENTIALS",
                v.cause, v.queries)

\* authenticate, from the answer v of _validate_user_in_oracle on
auth_result_for(v, t1, t2) ==
    LET enc == generate_jwt_token(v.user_data, t1, t2)
    IN  IF v.user_data = PyNone
        THEN InvalidCredentials(v)
        ELSE IF enc.err # ""
        THEN AuthFailure("Erro interno do servidor", "INTERNAL_ERROR", "exception", v.queries)
        ELSE [success |-> TRUE, error |-> "", code |-> "", token |-> enc.token,
              user |-> [cd_usuario |-> v.user_data.cd_usuario,
                        nome_usuario |-> v.user_data.nome_usuario,
                        cd_multi_empresa |-> v.user_data.cd_multi_empresa,
                        nome_empresa |-> v.user_data.nome_empresa,
                        perfil |-> v.user_data.perfil],
              cause |-> "ok", queries |-> v.queries]

\* AuthService.authenticate
authenticate(table, cd_usuario, password, cd_multi_empresa, dbOk, t1, t2) ==
    IF cd_usuario = <<>> \/ password = <<>>
    THEN AuthFailure("Usuario e senha sao obrigatorios", "MISSING_CREDENTIALS", "missing", 0)
    ELSE IF cd_multi_empresa = 0
    THEN AuthFailure("Empresa e obrigatoria", "MISSING_COMPANY", "missing", 0)
    ELSE auth_result_for(
            validate_user_in_oracle(table, cd_usuario, password, cd_multi_empresa, dbOk),
            t1, t2)

\* verify_token that looks the user of the token up in the store again
verify_token_rechecking(token, tk) ==
    LET d == jwt_decode(token, app_config.secret_key, tk) IN
    IF d.err # "" THEN PyNone
    ELSE IF \E i \in 1..Len(usuarios) :
                /\ usuarios[i].cd_usuario = d.payload.cd_usuario
                /\ usuarios[i].sn_ativo = PyStr(<<"S">>)
                /\ PyOr(usuarios[i].cd_papel, PyStr(<<"u","s","e","r">>)) = d.payload.perfil
    THEN d.payload
    ELSE PyNone

\* verify_token that turns down a token a logout request has carried
verify_token_revoking(token, tk) ==
    LET d == jwt_decode(token, app_config.secret_key, tk) IN
    IF token \in loggedOut THEN PyNone
    ELSE IF d.err = "" THEN d.payload
    ELSE PyNone

\* verify_token of a service that accepts a token only until it is refreshed
verify_token_rotating(token, tk) ==
    LET d == jwt_decode(token, app_config.secret_key, tk) IN
    IF token \in refreshed THEN PyNone
    ELSE IF d.err = "" THEN d.payload
    ELSE PyNone

\* AuthService.verify_token at tick tk: the payload, or None for an expired
\* token as for an invalid one
verify_token(token, tk) ==
    LET d == jwt_decode(token, app_config.secret_key, tk) IN
    IF d.err = "" THEN d.payload
    ELSE IF d.err = "ExpiredSignatureError" THEN PyNone
    ELSE PyNone

\* refresh_token that leaves the iat of the old token in place
refresh_token_keeps_iat(old_token, t1, t2) ==
    LET payload == verify_token(old_token, t1) IN
    IF payload = PyNone THEN PyNone
    ELSE
      LET fresh == [k \in DOMAIN payload |->
                       IF k = "exp"
                       THEN PyDatetime(t2 + timedelta_hours(app_config.jwt_expiration_hours))
                       ELSE payload[k]]
      IN  jwt_encode(fresh, app_config.secret_key).token

\* refresh_token that reads the old token without verifying it
refresh_token_unverified(old_token, t1, t2) ==
    LET payload == IF old_token.kind = "jwt" THEN old_token.body ELSE PyNone IN
    IF payload = PyNone THEN PyNone
    ELSE
      LET kept == [k \in (DOMAIN payload) \ TimeKeys |-> payload[k]]
          fresh == [k \in (DOMAIN kept) \cup TimeKeys |->
                       IF k = "iat" THEN PyDatetime(t1)
                       ELSE IF k = "exp"
                            THEN PyDatetime(t2 + timedelta_hours(app_config.jwt_expiration_hours))
                            ELSE kept[k]]
      IN  jwt_encode(fresh, app_config.secret_key).token

\* AuthService.refresh_token, its utcnow() reads at ticks t1 <= t2
refresh_token(old_token, t1, t2) ==
    LET payload == verify_token(old_token, t1) IN
    IF payload = PyNone THEN PyNone
    ELSE
      LET kept == [k \in (DOMAIN payload) \ TimeKeys |-> payload[k]]
          fresh == [k \in (DOMAIN kept) \cup TimeKeys |->
                       IF k = "iat" THEN PyDatetime(t1)
                       ELSE IF k = "exp"
                            THEN PyDatetime(t2 + timedelta_hours(app_config.jwt_expiration_hours))
                            ELSE kept[k]]
      IN  jwt_encode(fresh, app_config.secret_key).token

\* the module-level instance after initialize_auth_service() succeeded
Initialized == [decorators |-> "AuthService", routes |-> "AuthService"]

\* the instances after it failed: the mock of auth_service.py, and in
\* auth_routes.py the same or, when its imports fail, the mock defined there
Fallbacks ==
    {[decorators |-> "MockAuthService", routes |-> r] :
        r \in {"MockAuthService", "RoutesMockAuthService"}}

\* MockAuthService.authenticate
mock_authenticate ==
    AuthFailure("Servico de autenticacao nao configurado", "SERVICE_UNAVAILABLE", "mock", 0)

\* auth_service.authenticate(...) in auth_routes.py
service_authenticate(table, cd_usuario, password, cd_multi_empresa, dbOk, t1, t2) ==
    IF auth_service.routes = "AuthService"
    THEN authenticate(table, cd_usuario, password, cd_multi_empresa, dbOk, t1, t2)
    ELSE mock_authenticate

\* verify_token of an instance of the given class: None from both mocks
service_verify_token(class, token, tk) ==
    IF class = "AuthService" THEN verify_token(token, tk) ELSE PyNone

\* the mock of auth_routes.py defines no refresh_token
HasRefreshToken(class) == class # "RoutesMockAuthService"

\* refresh_token of an instance of the given class that defines it
service_refresh_token(class, token, t1, t2) ==
    IF class = "AuthService" THEN refresh_token(token, t1, t2) ELSE PyNone

\* the parameters of DatabaseManager.execute_query, self apart
ExecuteQueryParams == {"query", "params"}

\* the classes `except Exception` catches
ExceptionClasses == {"TypeError", "ValueError", "RuntimeError", "AttributeError"}

\* db.execute_query(audit_query, audit_params, commit=True): the call binds its
\* keywords before the body runs; the body takes a connection, executes, and
\* reads cursor.description, which is None after an INSERT, without a commit
audit_insert(keywords, logOk) ==
    IF ~(keywords \subseteq ExecuteQueryParams) THEN [err |-> "TypeError", inserted |-> FALSE]
    ELSE IF ~logOk THEN [err |-> "RuntimeError", inserted |-> FALSE]
    ELSE [err |-> "TypeError", inserted |-> FALSE]

\* no call of log_access
NotLogged ==
    [called |-> FALSE, store |-> FALSE, raised |-> FALSE, inserted |-> FALSE,
     audit_error |-> ""]

\* log_access without the handler around the audit insert
log_access_unguarded(cd_usuario, cd_multi_empresa, logOk) ==
    LET audit == audit_insert({"commit"}, logOk)
    IN  [called |-> TRUE, store |-> logOk, raised |-> audit.err # "",
         inserted |-> audit.inserted, audit_error |-> audit.err]

\* AuthService.log_access: the audit insert runs inside `except Exception`
\* handlers, so what it raises stays in log_access
log_access(cd_usuario, cd_multi_empresa, logOk) ==
    LET audit == audit_insert({"commit"}, logOk)
    IN  [called |-> TRUE, store |-> logOk,
         raised |-> audit.err # "" /\ audit.err \notin ExceptionClasses,
         inserted |-> audit.inserted, audit_error |-> audit.err]

(* ------------------------------ requests ------------------------------- *)

\* the Authorization header, split at single spaces; None when absent
Header(parts) == [t |-> "header", v |-> parts]

Word(w) == [kind |-> "word", text |-> w]

\* not auth_header
HeaderMissing(h) == h.t = "none" \/ h.v = <<>>

\* StartsWithBearer with the scheme compared without regard to case
StartsWithBearer_caseless(h) == Len(h.v) >= 2 /\ h.v[1] \in {Word("Bearer"), Word("bearer")}

\* auth_header.startswith('Bearer ')
StartsWithBearer(h) == Len(h.v) >= 2 /\ h.v[1] = Word("Bearer")

\* auth_header.split(' ')[1]
BearerToken(h) == h.v[2]

\* the request context g before any guard has run
Unset == [t |-> "unset", v |-> 0]

(* ----------------------------- auth routes ----------------------------- *)

LoginResult(resp, a) ==
    [resp |-> resp, queries |-> a.queries, cause |-> a.cause, token |-> a.token,
     user |-> a.user, log |-> NotLogged]

NoAuth(cause) == AuthFailure("", "", cause, 0)

\* login, from the result of authenticate on; what log_access raises is passed over
login_response(auth_result, logged, t1, t2) ==
    IF ~auth_result.success
    THEN LoginResult(
            error_response(auth_result.error,
                           IF auth_result.code \in {"INVALID_CREDENTIALS", "USER_INACTIVE"}
                           THEN 401 ELSE 400,
                           auth_result.code, t1),
            auth_result)
    ELSE [LoginResult(
             success_response([token |-> auth_result.token, user |-> auth_result.user],
                              "Login realizado com sucesso", t2),
             auth_result)
          EXCEPT !.log = logged]

\* POST /auth/login
route_login(req, table, dbOk, logOk, t1, t2) ==
    IF ~req.is_json
    THEN LoginResult(error_response("Content-Type deve ser application/json", 400,
                                    "INVALID_CONTENT_TYPE", t1), NoAuth("content_type"))
    ELSE IF ~req.parse_ok
    THEN LoginResult(error_response("JSON invalido ou malformado", 400, "INVALID_JSON", t1),
                     NoAuth("json"))
    ELSE IF req.data = PyNone
    THEN LoginResult(error_response("Dados de login sao obrigatorios", 400,
                                    "EMPTY_PAYLOAD", t1), NoAuth("empty"))
    ELSE
      LET cd_usuario == req.data.cdUsuario
          password == req.data.password
          cd_multi_empresa == req.data.cdMultiEmpresa
          validation == validate_login_data(cd_usuario, password, cd_multi_empresa)
          empresa == IntOf(cd_multi_empresa)
          Unexpected ==
              LoginResult(error_response("Erro interno do servidor", 500,
                                         "INTERNAL_SERVER_ERROR", t1), NoAuth("exception"))
      IN  IF validation.err # "" THEN Unexpected
          ELSE IF validation.msg # ""
          THEN LoginResult(error_response(validation.msg, 400, "VALIDATION_ERROR", t1),
                           NoAuth("validation"))
          ELSE IF empresa.err \in {"ValueError", "TypeError"}
          THEN LoginResult(error_response("Campo 'cdMultiEmpresa' deve ser um numero inteiro",
                                          400, "INVALID_EMPRESA_TYPE", t1), NoAuth("validation"))
          ELSE IF empresa.err # "" THEN Unexpected
          ELSE login_response(
                  service_authenticate(table, Upper(Strip(StrOf(cd_usuario))),
                                       Strip(StrOf(password)), empresa.v, dbOk, t1, t2),
                  log_access(cd_usuario, empresa.v, logOk), t1, t2)

\* POST /auth/verify that answers a request without a bearer token as a bad request
route_verify_token_missing_400(auth_header, tk) ==
    IF HeaderMissing(auth_header) \/ ~StartsWithBearer(auth_header)
    THEN error_response("Token nao fornecido ou formato invalido", 400, "MISSING_TOKEN", tk)
    ELSE
      LET payload == service_verify_token(auth_service.routes, BearerToken(auth_header), tk) IN
      IF payload = PyNone
      THEN error_response("Token invalido ou expirado", 401, "INVALID_TOKEN", tk)
      ELSE success_response([user |-> payload], "Token valido", tk)

\* POST /auth/verify
route_verify_token(auth_header, tk) ==
    IF HeaderMissing(auth_header) \/ ~StartsWithBearer(auth_header)
    THEN error_response("Token nao fornecido ou formato invalido", 401, "MISSING_TOKEN", tk)
    ELSE
      LET payload == service_verify_token(auth_service.routes, BearerToken(auth_header), tk) IN
      IF payload = PyNone
      THEN error_response("Token invalido ou expirado", 401, "INVALID_TOKEN", tk)
      ELSE success_response([user |-> payload], "Token valido", tk)

\* POST /auth/refresh
route_refresh_token(auth_header, t1, t2) ==
    IF HeaderMissing(auth_header) \/ ~StartsWithBearer(auth_header)
    THEN error_response("Token nao fornecido", 401, "MISSING_TOKEN", t1)
    ELSE IF ~HasRefreshToken(auth_service.routes)
    THEN error_response("Erro interno do servidor", 500, "INTERNAL_SERVER_ERROR", t1)
    ELSE
      LET new_token == service_refresh_token(auth_service.routes,
                                             BearerToken(auth_header), t1, t2) IN
      IF new_token = PyNone
      THEN error_response("Token invalido para renovacao", 401, "INVALID_REFRESH_TOKEN", t1)
      ELSE success_response([token |-> new_token], "Token renovado com sucesso", t2)

\* the log_access call of logout, made for a payload that verified
logout_logged(payload, logOk) ==
    IF payload = PyNone THEN NotLogged
    ELSE log_access(payload.cd_usuario, payload.cd_multi_empresa, logOk)

\* POST /auth/logout: the token, when one comes and verifies, is only logged;
\* what log_access raises is passed over
route_logout(auth_header, tk, logOk) ==
    IF HeaderMissing(auth_header) \/ ~StartsWithBearer(auth_header)
    THEN [resp |-> success_response(PyNone, "Logout realizado com sucesso", tk),
          log |-> NotLogged]
    ELSE [resp |-> success_response(PyNone, "Logout realizado com sucesso", tk),
          log |-> logout_logged(service_verify_token(auth_service.routes,
                                                     BearerToken(auth_header), tk), logOk)]

(* ------------------------------ decorators ----------------------------- *)

\* guard_payload that reads the claims of the token without verifying it
guard_payload_unverified(token, tk) == IF token.kind = "jwt" THEN token.body ELSE PyNone

\* require_auth, `payload = auth_service.verify_token(token)`
guard_payload(token, tk) == service_verify_token(auth_service.decorators, token, tk)

\* require_auth: either the rejection, or the request context the wrapped
\* handler is called with
\* require_auth that populates g.current_user from the token before it
\* verifies it
require_auth_populates_first(auth_header, tk) ==
    IF HeaderMissing(auth_header)
    THEN [passed |-> FALSE, g |-> Unset,
          resp |-> error_response("Token de acesso e obrigatorio", 401, "MISSING_TOKEN", tk)]
    ELSE IF ~StartsWithBearer(auth_header)
    THEN [passed |-> FALSE, g |-> Unset,
          resp |-> error_response("Formato do token invalido. Use: Bearer <token>", 401,
                                  "INVALID_TOKEN_FORMAT", tk)]
    ELSE IF guard_payload(BearerToken(auth_header), tk) = PyNone
    THEN [passed |-> FALSE,
          g |-> IF BearerToken(auth_header).kind = "jwt"
                THEN [cdUsuario |-> RowGet(BearerToken(auth_header).body, "cd_usuario"),
                      token |-> BearerToken(auth_header)]
                ELSE Unset,
          resp |-> error_response("Token invalido ou expirado", 401, "INVALID_TOKEN", tk)]
    ELSE [passed |-> TRUE,
          g |-> [cdUsuario |-> RowGet(guard_payload(BearerToken(auth_header), tk), "cd_usuario"),
                 nomeUsuario |-> RowGet(guard_payload(BearerToken(auth_header), tk), "nome_usuario"),
                 cdMultiEmpresa |-> RowGet(guard_payload(BearerToken(auth_header), tk), "cd_multi_empresa"),
                 nomeEmpresa |-> RowGet(guard_payload(BearerToken(auth_header), tk), "nome_empresa"),
                 perfil |-> RowGet(guard_payload(BearerToken(auth_header), tk), "perfil"),
                 token |-> BearerToken(auth_header)],
          resp |-> PyNone]

require_auth(auth_header, tk) ==
    IF HeaderMissing(auth_header)
    THEN [passed |-> FALSE, g |-> Unset,
          resp |-> error_response("Token de acesso e obrigatorio", 401, "MISSING_TOKEN", tk)]
    ELSE IF ~StartsWithBearer(auth_header)
    THEN [passed |-> FALSE, g |-> Unset,
          resp |-> error_response("Formato do token invalido. Use: Bearer <token>", 401,
                                  "INVALID_TOKEN_FORMAT", tk)]
    ELSE
      LET token == BearerToken(auth_header)
          payload == guard_payload(token, tk)
      IN  IF payload = PyNone
          THEN [passed |-> FALSE, g |-> Unset,
                resp |-> error_response("Token invalido ou expirado", 401, "INVALID_TOKEN", tk)]
          ELSE [passed |-> TRUE,
                g |-> [cdUsuario |-> RowGet(payload, "cd_usuario"),
                       nomeUsuario |-> RowGet(payload, "nome_usuario"),
                       cdMultiEmpresa |-> RowGet(payload, "cd_multi_empresa"),
                       nomeEmpresa |-> RowGet(payload, "nome_empresa"),
                       perfil |-> RowGet(payload, "perfil"),
                       token |-> token],
                resp |-> PyNone]

\* get_current_user
get_current_user(g) == IF g = Unset THEN PyNone ELSE g

\* GET /profile behind require_auth
get_profile(auth_header, tk) ==
    LET guard == require_auth(auth_header, tk)
        user == get_current_user(guard.g)
    IN  IF ~guard.passed
        THEN [resp |-> guard.resp, g |-> guard.g, handlerRan |-> FALSE]
        ELSE [resp |-> success_response([cdUsuario |-> user.cdUsuario,
                                         nomeUsuario |-> user.nomeUsuario,
                                         cdMultiEmpresa |-> user.cdMultiEmpresa,
                                         nomeEmpresa |-> user.nomeEmpresa,
                                         perfil |-> user.perfil],
                                        "Perfil do usuario", tk),
              g |-> guard.g, handlerRan |-> TRUE]

\* optional_auth that reads the claims of the token without verifying it
optional_auth_unverified(auth_header, tk) ==
    IF HeaderMissing(auth_header) \/ ~StartsWithBearer(auth_header)
    THEN PyNone
    ELSE
      LET token == BearerToken(auth_header)
          payload == IF token.kind = "jwt" THEN token.body ELSE PyNone
      IN  IF payload = PyNone
          THEN PyNone
          ELSE [cdUsuario |-> RowGet(payload, "cd_usuario"),
                nomeUsuario |-> RowGet(payload, "nome_usuario"),
                cdMultiEmpresa |-> RowGet(payload, "cd_multi_empresa"),
                nomeEmpresa |-> RowGet(payload, "nome_empresa"),
                perfil |-> RowGet(payload, "perfil"),
                token |-> token]

\* optional_auth: the request context the wrapped function is called with;
\* g.current_user is None unless the header carries a token that verifies
optional_auth(auth_header, tk) ==
    IF HeaderMissing(auth_header) \/ ~StartsWithBearer(auth_header)
    THEN PyNone
    ELSE
      LET token == BearerToken(auth_header)
          payload == service_verify_token(auth_service.decorators, token, tk)
      IN  IF payload = PyNone
          THEN PyNone
          ELSE [cdUsuario |-> RowGet(payload, "cd_usuario"),
                nomeUsuario |-> RowGet(payload, "nome_usuario"),
                cdMultiEmpresa |-> RowGet(payload, "cd_multi_empresa"),
                nomeEmpresa |-> RowGet(payload, "nome_empresa"),
                perfil |-> RowGet(payload, "perfil"),
                token |-> token]

\* not hasattr(g, 'current_user') or not g.current_user
NoCurrentUser(g) == g = Unset \/ g = PyNone

\* require_role comparing the role as written, without lower-casing
require_role_case_sensitive(allowed_roles, g, tk) ==
    IF NoCurrentUser(g)
    THEN error_response("Usuario nao autenticado", 401, "NOT_AUTHENTICATED", tk)
    ELSE IF g.perfil.t # "str"
    THEN error_response("Erro interno de autorizacao", 500, "ROLE_ERROR", tk)
    ELSE IF ~\E i \in 1..Len(allowed_roles) : allowed_roles[i] = g.perfil.v
    THEN error_response("Acesso negado. Perfis permitidos: {allowed_roles}", 403,
                        "INSUFFICIENT_ROLE", tk)
    ELSE PyNone

\* require_role(allowed_roles): the rejection, or None when the wrapped
\* function is called
require_role(allowed_roles, g, tk) ==
    IF NoCurrentUser(g)
    THEN error_response("Usuario nao autenticado", 401, "NOT_AUTHENTICATED", tk)
    ELSE IF g.perfil.t # "str"
    THEN error_response("Erro interno de autorizacao", 500, "ROLE_ERROR", tk)
    ELSE
      LET user_role == Lower(g.perfil.v)
          allowed_roles_lower == [i \in 1..Len(allowed_roles) |-> Lower(allowed_roles[i])]
      IN  IF ~\E i \in 1..Len(allowed_roles_lower) : allowed_roles_lower[i] = user_role
          THEN error_response("Acesso negado. Perfis permitidos: {allowed_roles}", 403,
                              "INSUFFICIENT_ROLE", tk)
          ELSE PyNone

\* require_empresa that compares with the first code of the allow-list only
require_empresa_first_code_only(empresa_codes, g, tk) ==
    IF NoCurrentUser(g)
    THEN error_response("Usuario nao autenticado", 401, "NOT_AUTHENTICATED", tk)
    ELSE IF empresa_codes = <<>> \/ PyInt(empresa_codes[1]) # g.cdMultiEmpresa
    THEN error_response("Acesso negado para a empresa {user_empresa}", 403,
                        "EMPRESA_NOT_ALLOWED", tk)
    ELSE PyNone

\* require_empresa that treats a missing identity as a company not allowed
require_empresa_absent_forbidden(empresa_codes, g, tk) ==
    IF NoCurrentUser(g)
       \/ ~\E i \in 1..Len(empresa_codes) : PyInt(empresa_codes[i]) = g.cdMultiEmpresa
    THEN error_response("Acesso negado para a empresa {user_empresa}", 403,
                        "EMPRESA_NOT_ALLOWED", tk)
    ELSE PyNone

\* require_empresa(empresa_codes): the rejection, or None when the wrapped
\* function is called
require_empresa(empresa_codes, g, tk) ==
    IF NoCurrentUser(g)
    THEN error_response("Usuario nao autenticado", 401, "NOT_AUTHENTICATED", tk)
    ELSE
      LET user_empresa == g.cdMultiEmpresa
      IN  IF ~\E i \in 1..Len(empresa_codes) : PyInt(empresa_codes[i]) = user_empresa
          THEN error_response("Acesso negado para a empresa {user_empresa}", 403,
                              "EMPRESA_NOT_ALLOWED", tk)
          ELSE PyNone

\* the decorators a route is wrapped in, outermost first
AuthGuard == [kind |-> "require_auth"]

OptionalGuard == [kind |-> "optional_auth"]

RoleGuard(allowed_roles) == [kind |-> "require_role", allowed_roles |-> allowed_roles]

EmpresaGuard(empresa_codes) == [kind |-> "require_empresa", empresa_codes |-> empresa_codes]

\* a request on its way through the decorators: the context g, the rejection
\* (None while no decorator has returned one) and the decorators that ran
Entering == [g |-> Unset, resp |-> PyNone, ran |-> <<>>]

\* require_auth went before guard: the context it left, or its rejection
after_require_auth(st, a) ==
    [g |-> a.g, resp |-> a.resp, ran |-> Append(st.ran, "require_auth")]

\* a decorator that runs whatever the decorators outside it answered
guard_step_always_runs(st, guard, auth_header, tk) ==
    CASE guard.kind = "require_auth" ->
            after_require_auth(st, require_auth(auth_header, tk))
      [] guard.kind = "optional_auth" ->
            [g |-> optional_auth(auth_header, tk), resp |-> PyNone,
             ran |-> Append(st.ran, "optional_auth")]
      [] guard.kind = "require_role" ->
            [g |-> st.g, resp |-> require_role(guard.allowed_roles, st.g, tk),
             ran |-> Append(st.ran, "require_role")]
      [] OTHER ->
            [g |-> st.g, resp |-> require_empresa(guard.empresa_codes, st.g, tk),
             ran |-> Append(st.ran, "require_empresa")]

\* one decorator of the stack: it runs only when every decorator outside it
\* called the function it wraps
guard_step(st, guard, auth_header, tk) ==
    IF st.resp # PyNone THEN st
    ELSE CASE guard.kind = "require_auth" ->
                after_require_auth(st, require_auth(auth_header, tk))
           [] guard.kind = "optional_auth" ->
                [g |-> optional_auth(auth_header, tk), resp |-> PyNone,
                 ran |-> Append(st.ran, "optional_auth")]
           [] guard.kind = "require_role" ->
                [g |-> st.g, resp |-> require_role(guard.allowed_roles, st.g, tk),
                 ran |-> Append(st.ran, "require_role")]
           [] OTHER ->
                [g |-> st.g, resp |-> require_empresa(guard.empresa_codes, st.g, tk),
                 ran |-> Append(st.ran, "require_empresa")]

RECURSIVE run_guards(_, _, _, _, _)
run_guards(stack, i, st, auth_header, tk) ==
    IF i > Len(stack) THEN st
    ELSE run_guards(stack, i + 1, guard_step(st, stack[i], auth_header, tk), auth_header, tk)

\* the route handlers of user_routes: they answer 200, with the identity
\* get_current_user() returns or as get_public_info does for a visitor
route_handler(g, tk) ==
    IF NoCurrentUser(g)
    THEN success_response([message |-> "Ola visitante anonimo!"], "Informacao publica", tk)
    ELSE success_response([solicitante |-> g.nomeUsuario, empresa |-> g.cdMultiEmpresa,
                           perfil |-> g.perfil],
                          "Operacao realizada com sucesso", tk)

\* the answer of a request once its decorators have run
route_answer(st, tk) ==
    IF st.resp # PyNone
    THEN [resp |-> st.resp, g |-> st.g, handlerRan |-> FALSE, ran |-> st.ran]
    ELSE [resp |-> route_handler(get_current_user(st.g), tk), g |-> st.g,
          handlerRan |-> TRUE, ran |-> st.ran]

\* a request to a route wrapped in the decorators of stack
guarded_route(stack, auth_header, tk) ==
    route_answer(run_guards(stack, 1, Entering, auth_header, tk), tk)

(* --------------------------- worker threads ---------------------------- *)

\* the threads of the server that serve requests side by side
Workers == {"w1", "w2"}

\* a worker that serves no request
NoWorkerRequest ==
    [pc |-> "idle", req |-> PyNone, route |-> <<>>, i |-> 0, resp |-> PyNone,
     ran |-> <<>>, clocks |-> <<>>, answer |-> PyNone]

\* flask.g as one object shared by all the threads
current_g_shared(contexts, w) ==
    IF \E x \in Workers : contexts[x] \notin {Unset, PyNone}
    THEN contexts[CHOOSE x \in Workers : contexts[x] \notin {Unset, PyNone}]
    ELSE contexts[w]

\* flask.g, read in the thread of worker w: the context of its own request
current_g(contexts, w) == contexts[w]

\* the decorators of worker w's request up to the one that runs next
guards_so_far(r, contexts, w) ==
    [g |-> current_g(contexts, w), resp |-> r.resp, ran |-> r.ran]

\* worker w after its next decorator ran and read the clock at tk
after_guard(r, st, tk) ==
    IF st.resp # PyNone
    THEN [r EXCEPT !.pc = "done", !.resp = st.resp, !.ran = st.ran,
                   !.clocks = Append(r.clocks, tk), !.answer = route_answer(st, tk)]
    ELSE [r EXCEPT !.i = r.i + 1, !.ran = st.ran, !.clocks = Append(r.clocks, tk)]

\* worker w after the route handler ran at tk
after_handler(r, st, tk) ==
    [r EXCEPT !.pc = "done", !.clocks = Append(r.clocks, tk),
              !.answer = route_answer(st, tk)]

\* the decorators of a request served alone, its clock reads being clocks
RECURSIVE run_alone(_, _, _, _, _)
run_alone(stack, i, st, auth_header, clocks) ==
    IF i > Len(stack) \/ st.resp # PyNone THEN st
    ELSE run_alone(stack, i + 1, guard_step(st, stack[i], auth_header, clocks[i]),
                   auth_header, clocks)

(* ------------------------------- inputs -------------------------------- *)

UserInputs ==
    {PyStr(<<>>), PyStr(<<"f","1">>), PyStr(<<"g","2">>),
     PyStr(<<"h","3">>), PyStr(<<"z","9">>), PyStr(<<"k","4">>)}

PasswordInputs == {PyStr(<<" ">>), PyStr(<<"p"," ">>), PyStr(<<"q">>)}

EmpresaInputs ==
    {PyNone, PyInt(0), PyInt(1), PyInt(MaxEmpresa), PyInt(MaxEmpresa + 1), PyInt(999999),
     PyInt(-1), PyFloat(3), PyStr(<<"x">>), PyInf}

LoginRequests ==
    {[is_json |-> FALSE, parse_ok |-> TRUE, data |-> PyNone],
     [is_json |-> TRUE, parse_ok |-> FALSE, data |-> PyNone],
     [is_json |-> TRUE, parse_ok |-> TRUE, data |-> PyNone]}
    \cup
    {[is_json |-> TRUE, parse_ok |-> TRUE,
      data |-> [cdUsuario |-> u, password |-> p, cdMultiEmpresa |-> e]] :
        u \in UserInputs, p \in PasswordInputs, e \in EmpresaInputs}

LoginData(u, p, e) ==
    [is_json |-> TRUE, parse_ok |-> TRUE,
     data |-> [cdUsuario |-> PyStr(u), password |-> PyStr(p), cdMultiEmpresa |-> PyInt(e)]]

SignInRequests ==
    {LoginData(<<"f","1">>, <<"p"," ">>, 1), LoginData(<<"g","2">>, <<"q">>, MaxEmpresa),
     LoginData(<<"f","1">>, <<"q">>, 1)}

\* the sign-in requests of the users whose role tag is empty or a number
RoleTagRequests ==
    {LoginData(<<"m","5">>, <<"p">>, 1), LoginData(<<"n","6">>, <<"p">>, 1),
     LoginData(<<"o","7">>, <<"p">>, 1)}

\* login requests the route refuses, one or more for each of its failure branches
RefusedRequests ==
    {[is_json |-> FALSE, parse_ok |-> TRUE, data |-> PyNone],
     [is_json |-> TRUE, parse_ok |-> FALSE, data |-> PyNone],
     [is_json |-> TRUE, parse_ok |-> TRUE, data |-> PyNone]}
    \cup
    {[is_json |-> TRUE, parse_ok |-> TRUE,
      data |-> [cdUsuario |-> PyStr(<<"f","1">>), password |-> PyStr(<<"p"," ">>),
                cdMultiEmpresa |-> e]] :
        e \in EmpresaInputs \ {PyInt(1), PyInt(MaxEmpresa), PyFloat(3)}}
    \cup
    {[is_json |-> TRUE, parse_ok |-> TRUE,
      data |-> [cdUsuario |-> u, password |-> PyStr(<<"p"," ">>), cdMultiEmpresa |-> PyInt(1)]] :
        u \in UserInputs \ {PyStr(<<"f","1">>)}}
    \cup {LoginData(<<"f","1">>, <<" ">>, 1)}

\* a bearer value that is no JWT at all
GarbageToken == [kind |-> "text", text |-> "not-a-jwt"]

\* a well-formed JWT signed with a key that is not the service's
ForgedToken ==
    LET body == [cd_usuario |-> PyStr(<<"F","1">>), nome_usuario |-> PyStr(<<"A","n","a">>),
                 cd_multi_empresa |-> PyInt(1),
                 nome_empresa |-> PyStr(<<"E","m","p","r","e","s","a"," ","1">>),
                 perfil |-> PyStr(<<"a","d","m","i","n">>),
                 iat |-> PyInt(0),
                 exp |-> PyInt(MaxTicks * JwtExpirationHours * SecondsPerHour + SecondsPerHour)]
    IN  [kind |-> "jwt", header |-> JwtHeader, body |-> body,
         sig |-> HS256("attacker-key", JwtHeader, body)]

\* an issued token whose body was edited (role raised, expiry pushed back)
\* while the signature was left as issued
Tamper(tok) ==
    [tok EXCEPT !.body.perfil = PyStr(<<"a","d","m","i","n">>),
                !.body.exp = PyInt(@.v + JwtExpirationHours * SecondsPerHour)]

IssuedTokens == {m.token : m \in issued}

Presentable ==
    IssuedTokens \cup {Tamper(tok) : tok \in IssuedTokens} \cup {GarbageToken, ForgedToken}

Headers ==
    {PyNone, Header(<<>>), Header(<<Word("Bearer")>>),
     Header(<<Word("Basic"), Word("dXNlcjpwdw==")>>),
     Header(<<Word("Bearer"), Word("")>>)}
    \cup {Header(<<Word("Bearer"), tok>>) : tok \in Presentable}
    \cup {Header(<<Word("bearer"), tok>>) : tok \in IssuedTokens}

\* role names, as the routes write them
Role(name) ==
    CASE name = "admin" -> <<"a","d","m","i","n">>
      [] name = "ADMIN" -> <<"A","D","M","I","N">>
      [] name = "administrador" -> <<"a","d","m","i","n","i","s","t","r","a","d","o","r">>
      [] name = "manager" -> <<"m","a","n","a","g","e","r">>
      [] name = "gerente" -> <<"g","e","r","e","n","t","e">>
      [] OTHER -> <<"u","s","e","r">>

\* require_admin
AdminGuard == RoleGuard(<<Role("admin"), Role("administrador")>>)

\* require_manager
ManagerGuard ==
    RoleGuard(<<Role("admin"), Role("administrador"), Role("manager"), Role("gerente")>>)

\* the decorator stacks of user_routes
UserRoutes ==
    {<<AuthGuard, AdminGuard>>,
     <<AuthGuard, EmpresaGuard(<<1, 2, 3>>)>>,
     <<AuthGuard, RoleGuard(<<Role("admin")>>), EmpresaGuard(<<1>>)>>,
     <<OptionalGuard>>,
     <<AuthGuard, ManagerGuard>>}

\* further stacks the decorators can be put in: other allow-lists, a filter
\* without require_auth, a filter behind optional_auth, a filter outside
\* require_auth
OtherRoutes ==
    {<<AuthGuard, RoleGuard(<<Role("user"), Role("ADMIN")>>)>>,
     <<AuthGuard, EmpresaGuard(<<1, 2>>)>>,
     <<AuthGuard, EmpresaGuard(<<1>>), RoleGuard(<<Role("user")>>)>>,
     <<RoleGuard(<<Role("admin")>>)>>,
     <<EmpresaGuard(<<1>>)>>,
     <<OptionalGuard, RoleGuard(<<Role("admin"), Role("user")>>)>>,
     <<OptionalGuard, EmpresaGuard(<<1, MaxEmpresa>>)>>,
     <<RoleGuard(<<Role("admin")>>), AuthGuard>>}

Routes == UserRoutes \cup OtherRoutes

\* what jwt.decode raised for the bearer token of a header, "" when it raised nothing
DecodeOutcome(h, tk) ==
    IF HeaderMissing(h) \/ ~StartsWithBearer(h) THEN "no_token"
    ELSE jwt_decode(BearerToken(h), app_config.secret_key, tk).err

(* ------------------------------- actions ------------------------------- *)

\* no request is being served
NoRequest ==
    [op |-> "none", at |-> 0, req |-> PyNone, resp |-> PyNone, queries |-> 0,
     cause |-> "", handlerRan |-> FALSE, g |-> Unset]

Idle == last = NoRequest

Init ==
    /\ app_config \in {[secret_key |-> SecretKey, jwt_expiration_hours |-> h] : h \in TtlChoices}
    /\ auth_service = Initialized
    /\ usuarios = InitialUsuarios
    /\ now = 0
    /\ ticks = 0
    /\ issued = {}
    /\ loggedOut = {}
    /\ refreshed = {}
    /\ last = NoRequest
    /\ reqs = [w \in Workers |-> NoWorkerRequest]
    /\ ctx = [w \in Workers |-> Unset]

\* the login route has answered req with r, d ticks after the request came in
LoginServed(req, r, d) ==
    /\ ticks + d <= MaxTicks
    /\ r.token # PyNone
        => Cardinality(issued \cup {[token |-> r.token, claims |-> r.user]}) <= MaxIssued
    /\ issued' = IF r.token # PyNone
                 THEN issued \cup {[token |-> r.token, claims |-> r.user]}
                 ELSE issued
    /\ now' = now + d
    /\ ticks' = ticks + d
    /\ last' = [op |-> "login", at |-> now, req |-> req, resp |-> r.resp,
                queries |-> r.queries, cause |-> r.cause,
                handlerRan |-> FALSE, g |-> Unset, log |-> r.log]
    /\ UNCHANGED <<app_config, auth_service, usuarios, loggedOut, refreshed, reqs, ctx>>

\* a client posts to /auth/login.  The store answers or fails when the user
\* is looked up (dbOk) and when the access is logged (logOk), and the clock
\* may advance by d ticks between the two utcnow() reads of the token issuer;
\* a request that reads no clock twice is served within the tick
LoginWith(requests) ==
    /\ Idle
    /\ \E req \in requests, dbOk \in BOOLEAN, logOk \in BOOLEAN :
          \/ LoginServed(req, route_login(req, usuarios, dbOk, logOk, now, now), 0)
          \/ /\ route_login(req, usuarios, dbOk, logOk, now, now).token # PyNone
             /\ LoginServed(req, route_login(req, usuarios, dbOk, logOk, now, now + 1), 1)

\* any login request
Login == LoginWith(LoginRequests)

\* a login request of a user who knows, or nearly knows, the credentials
SignIn == LoginWith(SignInRequests)

\* a user whose role tag is empty or a number signs in
RoleTagSignIn == LoginWith(RoleTagRequests)

\* a login request the route refuses
RefusedLogin == LoginWith(RefusedRequests)

\* a client posts to /auth/verify
VerifyToken ==
    \E h \in Headers :
        /\ Idle
        /\ last' = [op |-> "verify", at |-> now, req |-> h,
                    resp |-> route_verify_token(h, now), queries |-> 0,
                    cause |-> DecodeOutcome(h, now), handlerRan |-> FALSE, g |-> Unset]
        /\ UNCHANGED <<app_config, auth_service, usuarios, now, ticks, issued, loggedOut, refreshed, reqs, ctx>>

\* a client posts to /auth/refresh
RefreshWith(recorded) ==
    /\ Idle
    /\ \E h \in Headers :
        LET probe == route_refresh_token(h, now, now) IN
        \E d \in (IF probe.success THEN {0, 1} ELSE {0}) :
            LET resp == IF d = 0 THEN probe ELSE route_refresh_token(h, now, now + d)
                got == resp.success
                old == BearerToken(h).body
                minted == issued \cup {[token |-> resp.data.token,
                                        claims |-> [k \in ClaimKeys |-> old[k]]]}
            IN  /\ ticks + d <= MaxTicks
                /\ got => Cardinality(minted) <= MaxIssued
                /\ issued' = IF got THEN minted ELSE issued
                /\ refreshed' = IF got /\ recorded THEN refreshed \cup {BearerToken(h)}
                                ELSE refreshed
                /\ now' = now + d
                /\ ticks' = ticks + d
                /\ last' = [op |-> "refresh", at |-> now, req |-> h, resp |-> resp,
                            queries |-> 0, cause |-> DecodeOutcome(h, now),
                            handlerRan |-> FALSE, g |-> Unset]
                /\ UNCHANGED <<app_config, auth_service, usuarios, loggedOut, reqs, ctx>>

\* the refresh endpoint
RefreshToken == RefreshWith(FALSE)

\* the refresh endpoint, the history of its inputs being kept
RecordedRefresh == RefreshWith(TRUE)

\* a client requests GET /profile, a route behind require_auth
GetProfile ==
    \E h \in Headers :
        LET r == get_profile(h, now)
        IN  /\ Idle
            /\ last' = [op |-> "profile", at |-> now, req |-> h, resp |-> r.resp,
                        queries |-> 0, cause |-> DecodeOutcome(h, now),
                        handlerRan |-> r.handlerRan, g |-> r.g]
            /\ UNCHANGED <<app_config, auth_service, usuarios, now, ticks, issued, loggedOut, refreshed, reqs, ctx>>

\* a client requests a route wrapped in decorators
GuardedRequest ==
    /\ Idle
    /\ \E stack \in Routes, h \in Headers :
          /\ last' = [op |-> "guarded", at |-> now, req |-> h, route |-> stack,
                      answer |-> guarded_route(stack, h, now)]
          /\ UNCHANGED <<app_config, auth_service, usuarios, now, ticks, issued, loggedOut, refreshed, reqs, ctx>>

\* what an administrator of the store does to a record of dbasgu.usuarios
StoreChanges == {"deactivate", "role", "secret", "delete"}

\* the record after the change
ChangedRow(row, change) ==
    CASE change = "deactivate" -> [row EXCEPT !.sn_ativo = PyStr(<<"N">>)]
      [] change = "role" -> [row EXCEPT !.cd_papel = PyStr(<<"g","e","r","e","n","t","e">>)]
      [] OTHER -> [row EXCEPT !.cd_senha = PyStr(<<"z">>)]

\* the table after the change to its i-th record
ChangedTable(table, i, change) ==
    IF change = "delete"
    THEN SubSeq(table, 1, i - 1) \o SubSeq(table, i + 1, Len(table))
    ELSE [table EXCEPT ![i] = ChangedRow(table[i], change)]

\* the record of a user who holds an issued token is changed in the store,
\* outside this service; one change is followed
StoreChange ==
    /\ Idle
    /\ usuarios = InitialUsuarios
    /\ \E i \in 1..Len(usuarios), change \in StoreChanges :
          /\ \E m \in issued : m.claims.cd_usuario = usuarios[i].cd_usuario
          /\ usuarios' = ChangedTable(usuarios, i, change)
          /\ usuarios' # usuarios
    /\ UNCHANGED <<app_config, auth_service, now, ticks, issued, loggedOut, refreshed, last, reqs, ctx>>

\* a client posts to /auth/logout; the store is there for the audit insert or
\* not (logOk)
Logout ==
    /\ Idle
    /\ \E h \in Headers, logOk \in BOOLEAN :
          /\ last' = [op |-> "logout", at |-> now, req |-> h,
                      resp |-> route_logout(h, now, logOk).resp,
                      log |-> route_logout(h, now, logOk).log]
          /\ loggedOut' = IF ~HeaderMissing(h) /\ StartsWithBearer(h)
                                /\ BearerToken(h) \in IssuedTokens
                           THEN loggedOut \cup {BearerToken(h)}
                           ELSE loggedOut
          /\ UNCHANGED <<app_config, auth_service, usuarios, now, ticks, issued, reqs, ctx, refreshed>>

\* the routes and headers of the requests served side by side
WorkerRoutes ==
    {<<AuthGuard, AdminGuard>>, <<OptionalGuard>>,
     <<AuthGuard, EmpresaGuard(<<MaxEmpresa>>)>>}

\* the tokens the sign-ins at instant 0 return
WorkerTokens ==
    {route_login(req, InitialUsuarios, TRUE, TRUE, 0, 0).token : req \in SignInRequests}
        \ {PyNone}

WorkerHeaders == {PyNone} \cup {Header(<<Word("Bearer"), tok>>) : tok \in WorkerTokens}

\* a request comes in and is given to a worker that serves none, the first
\* worker before the second (the workers are interchangeable)
Arrive(w) ==
    /\ reqs[w].pc = "idle"
    /\ w = "w1" \/ reqs["w1"].pc # "idle"
    /\ \E stack \in WorkerRoutes, h \in WorkerHeaders :
          reqs' = [reqs EXCEPT ![w] = [NoWorkerRequest EXCEPT
                                          !.pc = "guards", !.req = h, !.route = stack, !.i = 1]]
    /\ ctx' = [ctx EXCEPT ![w] = Unset]
    /\ UNCHANGED <<app_config, auth_service, usuarios, now, ticks, issued, loggedOut, refreshed, last>>

\* the next decorator of worker w's request runs, or its handler when every
\* decorator has called the function it wraps
Step(w) ==
    /\ reqs[w].pc = "guards"
    /\ IF reqs[w].i <= Len(reqs[w].route)
       THEN /\ reqs' = [reqs EXCEPT ![w] =
                           after_guard(reqs[w],
                                       guard_step(guards_so_far(reqs[w], ctx, w),
                                                  reqs[w].route[reqs[w].i], reqs[w].req, now),
                                       now)]
            /\ ctx' = [ctx EXCEPT ![w] =
                           guard_step(guards_so_far(reqs[w], ctx, w),
                                      reqs[w].route[reqs[w].i], reqs[w].req, now).g]
       ELSE /\ reqs' = [reqs EXCEPT ![w] =
                           after_handler(reqs[w], guards_so_far(reqs[w], ctx, w), now)]
            /\ ctx' = ctx
    /\ UNCHANGED <<app_config, auth_service, usuarios, now, ticks, issued, loggedOut, refreshed, last>>

\* the response of worker w is sent and the context of its request discarded
Finish(w) ==
    /\ reqs[w].pc = "done"
    /\ reqs' = [reqs EXCEPT ![w] = NoWorkerRequest]
    /\ ctx' = [ctx EXCEPT ![w] = Unset]
    /\ UNCHANGED <<app_config, auth_service, usuarios, now, ticks, issued, loggedOut, refreshed, last>>

\* the process is started again and initialize_auth_service() raises: the
\* mock is installed, while the tokens handed out before stay with the clients
InitializationFails ==
    /\ Idle
    /\ auth_service = Initialized
    /\ auth_service' \in Fallbacks
    /\ UNCHANGED <<app_config, usuarios, now, ticks, issued, loggedOut, refreshed, last,
                   reqs, ctx>>

\* the instants the clock is advanced to: the next tick, and the last tick
\* before and the first tick of the expiry second of an issued token
TickTargets ==
    {now + 1}
    \cup {tok.body.exp.v * TicksPerSecond - 1 : tok \in IssuedTokens}
    \cup {tok.body.exp.v * TicksPerSecond : tok \in IssuedTokens}

\* time passes
Tick ==
    /\ Idle
    /\ ticks < MaxTicks
    /\ \E tk \in TickTargets :
          /\ tk > now
          /\ now' = tk
    /\ ticks' = ticks + 1
    /\ UNCHANGED <<app_config, auth_service, usuarios, issued, loggedOut, refreshed, last, reqs, ctx>>

\* the response has been sent: the request and its context g are discarded
EndRequest ==
    /\ ~Idle
    /\ last' = NoRequest
    /\ UNCHANGED <<app_config, auth_service, usuarios, now, ticks, issued, loggedOut, refreshed, reqs, ctx>>

\* the token life cycle: sign in, present tokens, let time pass
Next ==
    \/ SignIn \/ RefusedLogin \/ VerifyToken \/ RefreshToken \/ GetProfile
    \/ GuardedRequest \/ Tick \/ EndRequest

Spec == Init /\ [][Next]_vars

\* sessions: sign in, log out, present the token again, let time pass
NextLogout ==
    \/ SignIn \/ Logout \/ VerifyToken \/ GetProfile
    \/ Tick \/ EndRequest

SpecLogout == Init /\ [][NextLogout]_vars

\* tokens outliving the records they were issued for
NextStore ==
    \/ SignIn \/ StoreChange \/ VerifyToken \/ GetProfile
    \/ Tick \/ EndRequest

SpecStore == Init /\ [][NextStore]_vars

\* role tags from the store to the claims
NextTags == SignIn \/ RoleTagSignIn \/ EndRequest

SpecTags == Init /\ [][NextTags]_vars

\* role tags that are no text, from the store to the role filter
NextRoles == RoleTagSignIn \/ GuardedRequest \/ Tick \/ EndRequest

SpecRoles == Init /\ [][NextRoles]_vars

\* the service before and after a start at which its initialisation fails
NextMock ==
    \/ SignIn \/ RefusedLogin \/ InitializationFails
    \/ VerifyToken \/ RefreshToken \/ GetProfile \/ GuardedRequest \/ EndRequest

SpecMock == Init /\ [][NextMock]_vars

\* sessions prolonged by refreshes
NextRefresh == SignIn \/ RecordedRefresh \/ VerifyToken \/ Tick \/ EndRequest

SpecRefresh == Init /\ [][NextRefresh]_vars

\* requests served side by side by the worker threads
NextWorkers ==
    \/ Tick
    \/ \E w \in Workers : Arrive(w)
    \/ \E w \in Workers : Step(w)
    \/ \E w \in Workers : Finish(w)

SpecWorkers == Init /\ [][NextWorkers]_vars

\* the login endpoint under every request
NextLogin == Login \/ EndRequest

SpecLogin == Init /\ [][NextLogin]_vars

(* ------------------------- properties: login --------------------------- *)

\* the last request is a login that carried a JSON object
LoginWithData == last.op = "login" /\ last.req.data # PyNone

\* the login reached the store and the store answered
StoreAnswered == last.queries > 0 /\ last.cause # "store_error"

Blank(x) == Strip(StrOf(x)) = <<>>

\* what the user table holds for the credentials of a login request
CredentialState(data) ==
    LET code == Upper(Strip(StrOf(data.cdUsuario)))
        hits == {i \in 1..Len(usuarios) : Upper(usuarios[i].cd_usuario.v) = code}
        row == usuarios[CHOOSE i \in hits : \A j \in hits : i <= j]
    IN  IF hits = {} THEN "not_found"
        ELSE IF row.sn_ativo # PyStr(<<"S">>) THEN "inactive"
        ELSE IF row.cd_senha.t # "str" THEN "no_password"
        ELSE IF Strip(row.cd_senha.v) # Strip(StrOf(data.password)) THEN "mismatch"
        ELSE "match"

\* the stored user code of the record a login request names
StoredCode(data) ==
    LET code == Upper(Strip(StrOf(data.cdUsuario)))
        hits == {i \in 1..Len(usuarios) : Upper(usuarios[i].cd_usuario.v) = code}
    IN  usuarios[CHOOSE i \in hits : \A j \in hits : i <= j].cd_usuario.v

\* C1: a login that fails because the user code is unknown, because the record
\* is inactive or because the secret is wrong gets one and the same answer:
\* status 401, error code INVALID_CREDENTIALS, the same message, no data.
C1_FailuresIndistinguishable ==
    (LoginWithData /\ StoreAnswered
        /\ CredentialState(last.req.data) \in {"not_found", "inactive", "mismatch"})
    => /\ last.resp.status = 401
       /\ ~last.resp.success
       /\ last.resp.error_code = "INVALID_CREDENTIALS"
       /\ last.resp.message = "Credenciais invalidas ou usuario inativo"
       /\ last.resp.data = PyNone

\* a login against an inactive record, with the secret the record stores, was answered
C1_Witness ==
    /\ LoginWithData /\ StoreAnswered
    /\ CredentialState(last.req.data) = "inactive"
    /\ Strip(StrOf(last.req.data.password)) = <<"p">>
    /\ last.resp.status = 401

EmpresaMessages ==
    {"Campo 'cdMultiEmpresa' e obrigatorio",
     "Campo 'cdMultiEmpresa' deve ser um numero inteiro",
     "Campo 'cdMultiEmpresa' deve ser um numero positivo",
     "Campo 'cdMultiEmpresa' deve ser menor que 10000",
     "Empresa e obrigatoria"}

\* the login was turned down because of its company code
EmpresaRejected == ~last.resp.success /\ last.resp.message \in EmpresaMessages

\* C2 as claimed: a login with a blank user code or secret, or with a company
\* code that is not an integer in 1..999999, is answered 400 without a store
\* query, and every company code in 1..999999 passes the validation.
C2_Original ==
    LoginWithData =>
        LET u == last.req.data.cdUsuario
            p == last.req.data.password
            e == last.req.data.cdMultiEmpresa
            inRange == e.t = "int" /\ e.v >= 1 /\ e.v <= 999999
        IN  /\ (Blank(u) \/ Blank(p) \/ ~inRange) => (last.resp.status = 400 /\ last.queries = 0)
            /\ inRange => ~EmpresaRejected

\* C2 as amended: a login with a blank user code or secret, or with a company
\* code that is missing, not numeric or an integer outside 1..9999, is answered
\* 400 VALIDATION_ERROR without a store query, and every integer company code
\* in 1..9999 passes the validation; an infinite company code is answered 500,
\* also without a store query.
C2_ValidationBeforeStore ==
    LoginWithData =>
        LET u == last.req.data.cdUsuario
            p == last.req.data.password
            e == last.req.data.cdMultiEmpresa
            inRange == e.t = "int" /\ e.v >= 1 /\ e.v <= MaxEmpresa
            refused == \/ e.t = "none"
                       \/ e.t = "str" /\ ~IsDigitStr(Strip(e.v))
                       \/ e.t = "int" /\ ~inRange
        IN  /\ (Blank(u) \/ Blank(p) \/ refused)
                => /\ last.resp.status = 400
                   /\ last.resp.error_code = "VALIDATION_ERROR"
                   /\ last.queries = 0
            /\ inRange => ~EmpresaRejected
            /\ (~Blank(u) /\ ~Blank(p) /\ e.t = "inf")
                => (last.resp.status = 500 /\ last.queries = 0)

\* a login with well-formed credentials and company code 0 was turned down
C2_Witness ==
    /\ LoginWithData
    /\ ~Blank(last.req.data.cdUsuario) /\ ~Blank(last.req.data.password)
    /\ last.req.data.cdMultiEmpresa = PyInt(0)
    /\ last.resp.status = 400
    /\ last.queries = 0

\* C3 as claimed: a login whose credentials match an active record succeeds
\* with a token, and the user code of the returned claims is the record's
\* code in upper case, whatever the case stored or presented.
C3_Original ==
    (LoginWithData /\ StoreAnswered /\ CredentialState(last.req.data) = "match")
    => /\ last.resp.status = 200
       /\ last.resp.success
       /\ last.resp.data.token # PyNone
       /\ last.resp.data.user.cd_usuario = PyStr(Upper(StoredCode(last.req.data)))

(* ------------------------- properties: tokens -------------------------- *)

\* the last request carried `Authorization: Bearer <something>`
BearerReq == last.req.t = "header" /\ Len(last.req.v) >= 2 /\ last.req.v[1] = Word("Bearer")

\* the bearer value of the last request
Presented == last.req.v[2]

\* the first tick of the second a token expires in
ExpiresAt(tok) == tok.body.exp.v * TicksPerSecond

\* the last request presented a token this service issued
PresentedIssued == BearerReq /\ Presented \in IssuedTokens

\* the configured lifetime of a token, in seconds
TtlSeconds == app_config.jwt_expiration_hours * SecondsPerHour

\* C4: verifying an issued token before its expiry returns the five identity
\* claims the token was generated from, unchanged, next to iat and exp, for
\* every configured lifetime.
C4_IssueVerifyRoundTrip ==
    (last.op = "verify" /\ PresentedIssued /\ last.at < ExpiresAt(Presented))
    => /\ last.resp.success
       /\ DOMAIN last.resp.data.user = ClaimKeys \cup TimeKeys
       /\ \A m \in issued :
            m.token = Presented
            => \A k \in ClaimKeys : last.resp.data.user[k] = m.claims[k]

\* a token issued for the record stored as g2 with the long lifetime was verified
C4_Witness ==
    /\ last.op = "verify" /\ PresentedIssued
    /\ last.resp.success
    /\ app_config.jwt_expiration_hours = JwtExpirationHours
    /\ last.resp.data.user.cd_multi_empresa = PyInt(MaxEmpresa)
    /\ \E m \in issued : m.token = Presented /\ m.claims.cd_multi_empresa = PyInt(MaxEmpresa)

\* C5: an issued token is accepted at every instant before its expiresAt and
\* rejected as expired at every instant from expiresAt on, the instant
\* expiresAt itself included.
C5_ExpiryBoundary ==
    (last.op = "verify" /\ PresentedIssued)
    => /\ last.at < ExpiresAt(Presented) => last.resp.success
       /\ last.at >= ExpiresAt(Presented)
            => /\ ~last.resp.success
               /\ last.resp.status = 401
               /\ last.cause = "ExpiredSignatureError"

\* an issued token was verified exactly at its expiresAt and turned down
C5_Witness ==
    /\ last.op = "verify" /\ PresentedIssued
    /\ last.at = ExpiresAt(Presented)
    /\ ~last.resp.success

\* an issued token was verified at the last tick before its expiresAt and accepted
C5_WitnessBefore ==
    /\ last.op = "verify" /\ PresentedIssued
    /\ last.at = ExpiresAt(Presented) - 1
    /\ last.resp.success

\* C6 as claimed: what the verifier returns for an expired token differs from
\* what it returns for a token that cannot be parsed or is wrongly signed.
C6_Original ==
    (last.op = "verify" /\ PresentedIssued /\ last.at >= ExpiresAt(Presented))
    => /\ verify_token(Presented, last.at) # verify_token(GarbageToken, last.at)
       /\ verify_token(Presented, last.at) # verify_token(ForgedToken, last.at)

\* C7 as claimed: a successful refresh returns a token with the five identity
\* claims of the old one and with iat and exp both strictly later.
C7_Original ==
    (last.op = "refresh" /\ last.resp.success)
    => LET old == Presented.body
           new == last.resp.data.token.body
       IN  /\ \A k \in ClaimKeys : new[k] = old[k]
           /\ new.iat.v > old.iat.v
           /\ new.exp.v > old.exp.v

\* C7 as amended: a successful refresh returns a token with the five identity
\* claims of the old one and with iat and exp never earlier; iat is strictly
\* later exactly when the refresh happens in a later clock second than the
\* old iat, and exp is strictly later whenever the refresh happens in a clock
\* second later than the old exp less the lifetime.
C7_RefreshMovesForward ==
    (last.op = "refresh" /\ last.resp.success)
    => LET old == Presented.body
           new == last.resp.data.token.body
           second == last.at \div TicksPerSecond
       IN  /\ \A k \in ClaimKeys : new[k] = old[k]
           /\ new.iat.v >= old.iat.v
           /\ new.exp.v >= old.exp.v
           /\ (new.iat.v > old.iat.v) <=> (second > old.iat.v)
           /\ (second > old.exp.v - TtlSeconds) => new.exp.v > old.exp.v

\* a token was refreshed in a later second than it was issued in
C7_Witness ==
    /\ last.op = "refresh" /\ last.resp.success
    /\ last.at \div TicksPerSecond > Presented.body.iat.v
    /\ last.resp.data.token.body.exp.v > Presented.body.exp.v

\* a token was refreshed in the second it was issued in
C7_WitnessSameSecond ==
    /\ last.op = "refresh" /\ last.resp.success
    /\ last.resp.data.token = Presented

\* C8: a refresh succeeds exactly when verify_token accepts the presented
\* token, which it does only for an issued token before its expiry; every
\* other refresh is answered 401 and carries no token.
C8_RefreshFailsAsVerify ==
    last.op = "refresh"
    => LET accepted == BearerReq /\ verify_token(Presented, last.at) # PyNone
       IN  /\ last.resp.success <=> accepted
           /\ last.resp.success
                => (Presented \in IssuedTokens /\ last.at < ExpiresAt(Presented))
           /\ ~last.resp.success => (last.resp.status = 401 /\ last.resp.data = PyNone)
           /\ \A tok \in IssuedTokens : tok.sig = HS256(SecretKey, JwtHeader, tok.body)

\* the refresh of an expired issued token was answered 401
C8_Witness ==
    /\ last.op = "refresh" /\ PresentedIssued
    /\ last.at >= ExpiresAt(Presented)
    /\ last.resp.status = 401
    /\ last.resp.data = PyNone

\* C9: behind require_auth, a request without an Authorization header, or with
\* one whose scheme is not Bearer, is answered 401 and the handler does not run.
C9_NoBearerRejected ==
    (last.op = "profile"
        /\ \/ last.req.t = "none"
           \/ last.req.t = "header" /\ last.req.v = <<>>
           \/ last.req.t = "header" /\ last.req.v # <<>> /\ last.req.v[1] # Word("Bearer"))
    => /\ last.resp.status = 401
       /\ ~last.resp.success
       /\ ~last.handlerRan
       /\ last.g = Unset

\* a guarded request with a Basic header was answered 401
C9_Witness ==
    /\ last.op = "profile"
    /\ last.req.t = "header" /\ last.req.v # <<>> /\ last.req.v[1] = Word("Basic")
    /\ last.resp.status = 401
    /\ ~last.handlerRan

\* a guarded request without the header was answered 401
C9_WitnessNoHeader ==
    /\ last.op = "profile" /\ last.req.t = "none"
    /\ last.resp.status = 401

\* C10: behind require_auth the handler runs only for a bearer token that
\* verify_token accepts, an issued one before its expiry, and then the request
\* context holds the five identity claims of that token; a bearer token that
\* fails verification is answered 401 and the handler does not run.
C10_HandlerOnlyAfterVerify ==
    last.op = "profile"
    => /\ last.handlerRan
            => /\ BearerReq
               /\ verify_token(Presented, last.at) # PyNone
               /\ Presented \in IssuedTokens
               /\ last.at < ExpiresAt(Presented)
               /\ last.g.cdUsuario = Presented.body.cd_usuario
               /\ last.g.nomeUsuario = Presented.body.nome_usuario
               /\ last.g.cdMultiEmpresa = Presented.body.cd_multi_empresa
               /\ last.g.nomeEmpresa = Presented.body.nome_empresa
               /\ last.g.perfil = Presented.body.perfil
       /\ (BearerReq /\ verify_token(Presented, last.at) = PyNone)
            => /\ last.resp.status = 401
               /\ ~last.handlerRan
               /\ last.g = Unset

\* the handler ran for an issued token
C10_Witness ==
    /\ last.op = "profile" /\ last.handlerRan
    /\ PresentedIssued
    /\ last.g.cdUsuario = Presented.body.cd_usuario

\* a guarded request with a tampered token was answered 401
C10_WitnessRejected ==
    /\ last.op = "profile" /\ BearerReq
    /\ Presented \in {Tamper(tok) : tok \in IssuedTokens}
    /\ last.resp.status = 401
    /\ ~last.handlerRan

(* ------------------------- properties: guards -------------------------- *)

\* the last request went to a route wrapped in decorators
Guarded == last.op = "guarded"

\* the last request presented an issued token before its expiry
PresentedValid == PresentedIssued /\ last.at < ExpiresAt(Presented)

\* the request context holds the five identity claims of the presented token
ContextOfPresented(g) ==
    /\ g # Unset /\ g # PyNone
    /\ g.cdUsuario = Presented.body.cd_usuario
    /\ g.nomeUsuario = Presented.body.nome_usuario
    /\ g.cdMultiEmpresa = Presented.body.cd_multi_empresa
    /\ g.nomeEmpresa = Presented.body.nome_empresa
    /\ g.perfil = Presented.body.perfil

\* C11: behind optional_auth alone the handler always runs and the answer is
\* 200: with the context of the token's claims when the header carries an
\* issued token before its expiry, with the context None in every other case;
\* with a filter inside optional_auth, that filter is always reached.
C11_OptionalNeverRejects ==
    Guarded
    => /\ last.route = <<OptionalGuard>>
            => /\ last.answer.handlerRan
               /\ last.answer.resp.status = 200
               /\ PresentedValid => ContextOfPresented(last.answer.g)
               /\ ~PresentedValid => last.answer.g = PyNone
       /\ (last.route[1] = OptionalGuard /\ Len(last.route) > 1)
            => (Len(last.answer.ran) > 1 /\ last.answer.ran[1] = "optional_auth")

\* behind optional_auth the handler ran without identity for a tampered token
C11_Witness ==
    /\ Guarded /\ last.route = <<OptionalGuard>>
    /\ BearerReq /\ Presented \in {Tamper(tok) : tok \in IssuedTokens}
    /\ last.answer.handlerRan
    /\ last.answer.g = PyNone

\* behind optional_auth the handler ran with the identity of an issued token
C11_WitnessIdentified ==
    /\ Guarded /\ last.route = <<OptionalGuard>>
    /\ PresentedValid
    /\ last.answer.handlerRan
    /\ ContextOfPresented(last.answer.g)

\* the i-th decorator of the last request's route let the request through:
\* the next decorator ran, or the handler when there is none
PassedGuard(i) ==
    IF i = Len(last.route) THEN last.answer.handlerRan ELSE Len(last.answer.ran) > i

\* the i-th decorator of the last request's route turned the request down
\* with this status and code, and nothing ran after it
RejectedAt(i, status, error_code) ==
    /\ Len(last.answer.ran) = i
    /\ ~last.answer.handlerRan
    /\ last.answer.resp.status = status
    /\ last.answer.resp.error_code = error_code

\* the role of the presented token is, lower-cased, one of roles lower-cased
RoleAllowed(roles) ==
    \E i \in 1..Len(roles) : Lower(roles[i]) = Lower(Presented.body.perfil.v)

\* C12: a role filter right behind require_auth lets an authenticated request
\* through iff the lower-cased role of the identity is the lower-casing of
\* some allowed role, and answers 403 otherwise.
C12_RoleFilterCaseInsensitive ==
    (Guarded /\ PresentedValid /\ Len(last.route) >= 2
        /\ last.route[1] = AuthGuard /\ last.route[2].kind = "require_role")
    => /\ RoleAllowed(last.route[2].allowed_roles) => PassedGuard(2)
       /\ ~RoleAllowed(last.route[2].allowed_roles) => RejectedAt(2, 403, "INSUFFICIENT_ROLE")

\* the identity with role ADMIN passed the filter that allows admin
C12_Witness ==
    /\ Guarded /\ PresentedValid
    /\ last.route = <<AuthGuard, RoleGuard(<<Role("admin")>>), EmpresaGuard(<<1>>)>>
    /\ Presented.body.perfil = PyStr(Role("ADMIN"))
    /\ PassedGuard(2)

\* the identity with role user was turned down by the filter that allows admin
C12_WitnessRejected ==
    /\ Guarded /\ PresentedValid
    /\ last.route = <<AuthGuard, AdminGuard>>
    /\ Presented.body.perfil = PyStr(Role("user"))
    /\ RejectedAt(2, 403, "INSUFFICIENT_ROLE")

\* C13: a role or company filter that runs before any require_auth, or behind
\* an optional_auth that left the context empty, answers 401 NOT_AUTHENTICATED,
\* not 403, and neither a later decorator nor the handler runs.
C13_FilterWithoutIdentity ==
    Guarded
    => /\ last.route[1].kind \in {"require_role", "require_empresa"}
            => RejectedAt(1, 401, "NOT_AUTHENTICATED")
       /\ (last.route[1] = OptionalGuard /\ Len(last.route) > 1 /\ ~PresentedValid)
            => RejectedAt(2, 401, "NOT_AUTHENTICATED")

\* a company filter behind optional_auth answered 401 for a tampered token
C13_Witness ==
    /\ Guarded
    /\ last.route = <<OptionalGuard, EmpresaGuard(<<1, MaxEmpresa>>)>>
    /\ BearerReq /\ Presented \in {Tamper(tok) : tok \in IssuedTokens}
    /\ RejectedAt(2, 401, "NOT_AUTHENTICATED")

\* a role filter outside require_auth answered 401 for an issued token
C13_WitnessNoAuth ==
    /\ Guarded /\ PresentedValid
    /\ last.route = <<RoleGuard(<<Role("admin")>>), AuthGuard>>
    /\ RejectedAt(1, 401, "NOT_AUTHENTICATED")

\* the company code of the presented token is one of codes
EmpresaAllowed(codes) ==
    /\ Presented.body.cd_multi_empresa.t = "int"
    /\ \E i \in 1..Len(codes) : codes[i] = Presented.body.cd_multi_empresa.v

\* C14: a company filter right behind the decorator that populated the
\* identity lets the request through iff the company code of the identity is
\* in the allow-list, and answers 403 otherwise.
C14_CompanyFilterMembership ==
    (Guarded /\ PresentedValid /\ Len(last.route) >= 2
        /\ last.route[1] \in {AuthGuard, OptionalGuard}
        /\ last.route[2].kind = "require_empresa")
    => /\ EmpresaAllowed(last.route[2].empresa_codes) => PassedGuard(2)
       /\ ~EmpresaAllowed(last.route[2].empresa_codes)
            => RejectedAt(2, 403, "EMPRESA_NOT_ALLOWED")

\* the identity of company 1 passed the filter that allows 1 and 2
C14_Witness ==
    /\ Guarded /\ PresentedValid
    /\ last.route = <<AuthGuard, EmpresaGuard(<<1, 2>>)>>
    /\ Presented.body.cd_multi_empresa = PyInt(1)
    /\ last.answer.handlerRan

\* the identity of another company was turned down by the filter that allows 1 and 2
C14_WitnessRejected ==
    /\ Guarded /\ PresentedValid
    /\ last.route = <<AuthGuard, EmpresaGuard(<<1, 2>>)>>
    /\ Presented.body.cd_multi_empresa = PyInt(MaxEmpresa)
    /\ RejectedAt(2, 403, "EMPRESA_NOT_ALLOWED")

\* the last request's route is require_auth with role and company filters
\* inside it and nothing else
AuthThenFilters ==
    /\ Guarded /\ Len(last.route) >= 1 /\ last.route[1] = AuthGuard
    /\ \A i \in 2..Len(last.route) :
          last.route[i].kind \in {"require_role", "require_empresa"}

\* the i-th decorator of the last request's route accepts the presented token
GuardAccepts(i) ==
    CASE last.route[i].kind = "require_auth" -> PresentedValid
      [] last.route[i].kind = "require_role" ->
            PresentedValid /\ RoleAllowed(last.route[i].allowed_roles)
      [] last.route[i].kind = "require_empresa" ->
            PresentedValid /\ EmpresaAllowed(last.route[i].empresa_codes)
      [] OTHER -> TRUE

\* the status a decorator of this kind rejects an identified request with
RejectionStatus(kind) == IF kind = "require_auth" THEN 401 ELSE 403

\* C15: stacked guards compose by conjunction. Behind require_auth and any
\* role and company filters, the handler runs iff the token verifies and
\* every filter accepts its identity; otherwise the outermost guard that does
\* not accept answers, with its own status, and no guard inside it runs.
C15_GuardsComposeByAnd ==
    AuthThenFilters
    => /\ last.answer.handlerRan <=> \A i \in 1..Len(last.route) : GuardAccepts(i)
       /\ \A i \in 1..Len(last.route) :
             (~GuardAccepts(i) /\ \A j \in 1..(i - 1) : GuardAccepts(j))
             => /\ Len(last.answer.ran) = i
                /\ ~last.answer.handlerRan
                /\ last.answer.resp.status = RejectionStatus(last.route[i].kind)

\* update_company_settings ran for the ADMIN of company 1
C15_Witness ==
    /\ AuthThenFilters /\ PresentedValid
    /\ last.route = <<AuthGuard, RoleGuard(<<Role("admin")>>), EmpresaGuard(<<1>>)>>
    /\ last.answer.handlerRan
    /\ last.answer.ran = <<"require_auth", "require_role", "require_empresa">>

\* the outer filter turned down an identity the inner filter would have accepted
C15_WitnessShortCircuit ==
    /\ AuthThenFilters /\ PresentedValid /\ Len(last.route) = 3
    /\ ~GuardAccepts(2) /\ GuardAccepts(3)
    /\ last.answer.ran = <<"require_auth", "require_empresa">>
    /\ last.answer.resp.status = 403

\* the inner filter turned down an identity the outer filter accepted
C15_WitnessInnerRejects ==
    /\ AuthThenFilters /\ PresentedValid /\ Len(last.route) = 3
    /\ GuardAccepts(2) /\ ~GuardAccepts(3)
    /\ ~last.answer.handlerRan
    /\ Len(last.answer.ran) = 3

(* ----------------------- properties: access log ------------------------ *)

\* C20: the access log is best-effort. A login whose credential check
\* succeeded calls log_access; whether the store is there for the audit insert
\* or not, log_access raises nothing to the route, and the login is answered
\* 200 with the token and the user. No other login calls log_access.
C20_AccessLogBestEffort ==
    last.op = "login"
    => /\ last.cause = "ok"
            => /\ last.log.called /\ ~last.log.raised
               /\ last.resp.status = 200 /\ last.resp.success
               /\ last.resp.data.token \in IssuedTokens
       /\ last.cause # "ok" => last.log = NotLogged

\* a login was answered 200 although the audit insert failed with the store gone
C20_Witness ==
    /\ last.op = "login" /\ last.cause = "ok"
    /\ last.log.called /\ ~last.log.store /\ last.log.audit_error # ""
    /\ ~last.log.inserted
    /\ last.resp.status = 200

\* a login was answered 200 with the store there for the audit insert
C20_WitnessStoreUp ==
    /\ last.op = "login" /\ last.cause = "ok"
    /\ last.log.called /\ last.log.store
    /\ last.resp.status = 200

(* --------------------- properties: login failures --------------------- *)

\* the branches of login that answer a malformed or incomplete request
MalformedCauses == {"content_type", "json", "empty", "validation", "missing"}

\* the branches of the credential check that find no matching active record
CredentialCauses == {"not_found", "inactive", "no_password", "mismatch"}

\* the branches taken when something inside the service raised, the store
\* query apart
InternalCauses == {"exception"}

\* C16 as claimed: login answers 400 to a malformed or incomplete request, 401
\* to wrong credentials, and 500 to every internal failure, the INTERNAL_ERROR
\* of authenticate included; no internal failure is answered 400 or 401.
\* (Stated for the logins whose store query did not fail.)
C16_Original ==
    (last.op = "login" /\ last.cause # "store_error")
    => /\ last.cause \in InternalCauses => last.resp.status = 500
       /\ last.resp.status = 400 => last.cause \in MalformedCauses
       /\ last.resp.status = 401 => last.cause \in CredentialCauses

\* C19 as claimed: a login during which the store failed is answered 500 as a
\* server error, never as invalid credentials.
C19_Original ==
    (last.op = "login" /\ last.queries > 0 /\ last.cause = "store_error")
    => /\ last.resp.status = 500
       /\ last.resp.error_code # "INVALID_CREDENTIALS"

(* ---------------------- properties: verify route ---------------------- *)

\* verify_token accepted the bearer token of the last request
Accepted == BearerReq /\ verify_token(Presented, last.at) # PyNone

\* C17: POST /auth/verify answers 200 with the claims of the token iff the
\* request carries a bearer token that verify_token accepts, and 401 in every
\* other case: no header, another scheme, or a token verify_token turns down.
C17_VerifyRoute ==
    last.op = "verify"
    => /\ Accepted
            => /\ last.resp.status = 200 /\ last.resp.success
               /\ last.resp.data = [user |-> verify_token(Presented, last.at)]
               /\ PresentedValid
       /\ ~Accepted
            => /\ last.resp.status = 401 /\ ~last.resp.success
               /\ last.resp.data = PyNone
               /\ ~PresentedValid

\* the route answered 200 with the claims of an accepted token
C17_Witness ==
    /\ last.op = "verify" /\ Accepted
    /\ last.resp.status = 200
    /\ last.resp.data.user.cd_usuario = Presented.body.cd_usuario

\* the route answered 401 to a bearer token verify_token turned down
C17_WitnessTurnedDown ==
    /\ last.op = "verify" /\ BearerReq /\ ~Accepted
    /\ last.resp.status = 401 /\ last.resp.error_code = "INVALID_TOKEN"

\* the route answered 401 to a request without a bearer token
C17_WitnessNoBearer ==
    /\ last.op = "verify" /\ ~BearerReq
    /\ last.resp.status = 401 /\ last.resp.error_code = "MISSING_TOKEN"

(* ------------------------- properties: logout -------------------------- *)

\* C18: POST /auth/logout always answers 200, whatever the Authorization
\* header carries and whether the access log can be written or not; it calls
\* log_access only for a token that verifies. It changes the validity of no
\* token: a token a logout request has carried is afterwards accepted by
\* /auth/verify and by require_auth exactly when it is an issued token before
\* its expiry.
C18_LogoutChangesNothing ==
    /\ last.op = "logout"
        => /\ last.resp.status = 200 /\ last.resp.success
           /\ last.resp.message = "Logout realizado com sucesso"
           /\ last.log.called <=> PresentedValid
           /\ ~last.log.raised
    /\ (last.op \in {"verify", "profile"} /\ BearerReq /\ Presented \in loggedOut)
        => (last.resp.status = 200 <=> PresentedValid)

\* a token was accepted by /auth/verify after a logout request carried it
C18_Witness ==
    /\ last.op = "verify" /\ BearerReq /\ Presented \in loggedOut
    /\ PresentedValid
    /\ last.resp.status = 200

\* logout answered 200 to a token that verifies with the store gone for the log
C18_WitnessLogFails ==
    /\ last.op = "logout" /\ PresentedValid
    /\ last.log.called /\ ~last.log.store /\ last.log.audit_error # ""
    /\ last.resp.status = 200

\* logout answered 200 to a request whose header carries no token that verifies
C18_WitnessNoToken ==
    /\ last.op = "logout" /\ ~PresentedValid
    /\ ~last.log.called
    /\ last.resp.status = 200

(* ---------------------- properties: stateless trust -------------------- *)

\* the claims the presented token was issued with
FrozenClaims == (CHOOSE m \in issued : m.token = Presented).claims

\* the records the store now holds for the user of the presented token
HolderRecords ==
    {i \in 1..Len(usuarios) : usuarios[i].cd_usuario = Presented.body.cd_usuario}

\* C21: verification never consults the credential store. Whatever has been
\* done to the record of its user since it was issued (deactivated, role or
\* secret changed, deleted), an issued token is accepted by /auth/verify and by
\* require_auth at every time before its expiry, with the claims it was
\* issued with, role and company included, and rejected from its expiry on.
C21_StatelessTrust ==
    (last.op \in {"verify", "profile"} /\ PresentedIssued)
    => /\ last.at < ExpiresAt(Presented)
            => /\ last.resp.status = 200
               /\ last.op = "verify"
                    => \A k \in ClaimKeys : last.resp.data.user[k] = FrozenClaims[k]
               /\ last.op = "profile"
                    => /\ last.handlerRan
                       /\ last.g.cdUsuario = FrozenClaims.cd_usuario
                       /\ last.g.perfil = FrozenClaims.perfil
                       /\ last.g.cdMultiEmpresa = FrozenClaims.cd_multi_empresa
                       /\ last.resp.data.perfil = FrozenClaims.perfil
       /\ last.at >= ExpiresAt(Presented)
            => /\ last.resp.status = 401
               /\ last.op = "profile" => ~last.handlerRan

\* require_auth let a token through after the record of its user was deleted
C21_Witness ==
    /\ last.op = "profile" /\ PresentedIssued
    /\ usuarios # InitialUsuarios /\ HolderRecords = {}
    /\ last.handlerRan /\ last.resp.status = 200

\* a token was accepted with the role it was issued with after the role of
\* the record was changed
C21_WitnessRoleChanged ==
    /\ last.op = "profile" /\ PresentedIssued
    /\ \E i \in HolderRecords :
          usuarios[i].cd_papel \notin {PyNone, last.g.perfil}
    /\ last.handlerRan

\* a token was accepted after its user was deactivated
C21_WitnessDeactivated ==
    /\ last.op = "verify" /\ PresentedIssued
    /\ \E i \in HolderRecords : usuarios[i].sn_ativo = PyStr(<<"N">>)
    /\ last.resp.status = 200

\* a token was rejected from its expiry on, the store changed or not
C21_WitnessExpired ==
    /\ last.op = "profile" /\ PresentedIssued
    /\ usuarios # InitialUsuarios
    /\ last.at >= ExpiresAt(Presented)
    /\ last.resp.status = 401

(* ------------------- properties: user/company pair -------------------- *)

\* C22 as claimed: a login succeeds only when the presented company code is
\* the company code of the matched credential record. A record has one company
\* code, so the tokens issued for one record all carry the same company code.
C22_Original ==
    \A m1, m2 \in issued :
        m1.claims.cd_usuario = m2.claims.cd_usuario
        => m1.claims.cd_multi_empresa = m2.claims.cd_multi_empresa

(* ---------------------- properties: error codes ----------------------- *)

\* the response of the last request
Answered == IF Guarded THEN last.answer.resp ELSE last.resp

\* the last request was answered with a failure
Failed == last.op # "none" /\ ~Answered.success

\* the decorator that turned the last guarded request down
RejectingGuard == last.route[Len(last.answer.ran)]

\* where the failure of the last request was answered
Endpoint ==
    CASE last.op = "profile" -> "require_auth"
      [] last.op = "guarded" -> RejectingGuard.kind
      [] OTHER -> last.op

\* what was wrong with the Authorization header of the last request
TokenCause ==
    IF HeaderMissing(last.req) THEN "no_header"
    ELSE IF ~StartsWithBearer(last.req) THEN "not_bearer"
    ELSE DecodeOutcome(last.req, last.at)

\* what made the last request fail, told without its response
FailureCause ==
    CASE last.op = "login" ->
            IF last.cause = "exception" /\ last.queries = 0 THEN "unexpected" ELSE last.cause
      [] last.op = "guarded" /\ RejectingGuard.kind \in {"require_role", "require_empresa"} ->
            IF NoCurrentUser(last.answer.g) THEN "no_identity" ELSE "not_allowed"
      [] OTHER -> TokenCause

\* the error code each endpoint and guard gives to each failure cause
CodeAt(endpoint, cause) ==
    CASE endpoint = "login" ->
            (CASE cause = "content_type" -> "INVALID_CONTENT_TYPE"
               [] cause = "json" -> "INVALID_JSON"
               [] cause = "empty" -> "EMPTY_PAYLOAD"
               [] cause = "validation" -> "VALIDATION_ERROR"
               [] cause = "unexpected" -> "INTERNAL_SERVER_ERROR"
               [] cause = "exception" -> "INTERNAL_ERROR"
               [] OTHER -> "INVALID_CREDENTIALS")
      [] endpoint = "verify" ->
            IF cause \in {"no_header", "not_bearer"} THEN "MISSING_TOKEN" ELSE "INVALID_TOKEN"
      [] endpoint = "refresh" ->
            IF cause \in {"no_header", "not_bearer"} THEN "MISSING_TOKEN"
            ELSE "INVALID_REFRESH_TOKEN"
      [] endpoint = "require_auth" ->
            (CASE cause = "no_header" -> "MISSING_TOKEN"
               [] cause = "not_bearer" -> "INVALID_TOKEN_FORMAT"
               [] OTHER -> "INVALID_TOKEN")
      [] endpoint = "require_role" ->
            IF cause = "no_identity" THEN "NOT_AUTHENTICATED" ELSE "INSUFFICIENT_ROLE"
      [] OTHER ->
            IF cause = "no_identity" THEN "NOT_AUTHENTICATED" ELSE "EMPRESA_NOT_ALLOWED"

\* every failure response says success = false and carries a message and a
\* non-empty error code
FailureShape ==
    Failed => /\ Answered.success = FALSE
              /\ Answered.message # ""
              /\ Answered.error_code # ""
              /\ Answered.status \in {400, 401, 403, 500}

\* C23 as claimed: every failure response has success = false, a message and a
\* non-empty error code, and the same failure cause always yields the same
\* error code: a header that /auth/verify, /auth/refresh and require_auth all
\* turn down at the same instant is given one error code by the three.
C23_Original ==
    /\ FailureShape
    /\ (Failed /\ last.op \in {"verify", "refresh", "profile"})
        => /\ route_verify_token(last.req, last.at).error_code
                = require_auth(last.req, last.at).resp.error_code
           /\ route_refresh_token(last.req, last.at, last.at).error_code
                = require_auth(last.req, last.at).resp.error_code

\* C23: every failure response of the auth endpoints and of the guards has
\* success = false, a message and a non-empty error code, and at each endpoint
\* and guard the error code is fixed by the failure cause alone, whatever the
\* clock, the store and the requests served before.
C23_ErrorCodeStablePerEndpoint ==
    /\ FailureShape
    /\ Failed => Answered.error_code = CodeAt(Endpoint, FailureCause)

\* require_auth named a header without the Bearer scheme INVALID_TOKEN_FORMAT
C23_Witness ==
    /\ Failed /\ Endpoint = "require_auth" /\ FailureCause = "not_bearer"
    /\ Answered.error_code = "INVALID_TOKEN_FORMAT"

\* /auth/verify named a header without the Bearer scheme MISSING_TOKEN
C23_WitnessVerify ==
    /\ Failed /\ Endpoint = "verify" /\ FailureCause = "not_bearer"
    /\ Answered.error_code = "MISSING_TOKEN"

\* login named a refused credential check INVALID_CREDENTIALS after time passed
\* and tokens were issued
C23_WitnessLogin ==
    /\ Failed /\ Endpoint = "login" /\ FailureCause = "mismatch"
    /\ issued # {} /\ now > 0
    /\ Answered.error_code = "INVALID_CREDENTIALS"

(* ----------------------- properties: role default ---------------------- *)

\* the role tag of the record a login request names
StoredRole(data) ==
    LET code == Upper(Strip(StrOf(data.cdUsuario)))
        hits == {i \in 1..Len(usuarios) : Upper(usuarios[i].cd_usuario.v) = code}
    IN  usuarios[CHOOSE i \in hits : \A j \in hits : i <= j].cd_papel

\* the last request is a login that succeeded against a matching active record
LoginMatched ==
    /\ LoginWithData /\ StoreAnswered
    /\ CredentialState(last.req.data) = "match"
    /\ last.resp.status = 200

\* C24 as claimed: the claims of a successful login have the role "user" when
\* the record has no role tag (null or empty), and the tag of the record,
\* unchanged, when it has one.
C24_Original ==
    LoginMatched
    => IF StoredRole(last.req.data) \in {PyNone, PyStr(<<>>)}
       THEN last.resp.data.user.perfil = PyStr(<<"u","s","e","r">>)
       ELSE last.resp.data.user.perfil = StoredRole(last.req.data)

\* C24: the claims of a successful login, in the user object as in the token,
\* have the role "user" when the role tag of the record is null, empty or any
\* other value that counts as false (a numeric 0), and the tag of the record,
\* unchanged, in every other case.
C24_RoleDefault ==
    LoginMatched
    => /\ last.resp.data.user.perfil = last.resp.data.token.body.perfil
       /\ IF StoredRole(last.req.data) \in {PyNone, PyStr(<<>>), PyInt(0)}
          THEN last.resp.data.user.perfil = PyStr(<<"u","s","e","r">>)
          ELSE last.resp.data.user.perfil = StoredRole(last.req.data)

\* a record without a role tag signed in as "user"
C24_Witness ==
    /\ LoginMatched
    /\ StoredRole(last.req.data) = PyNone
    /\ last.resp.data.user.perfil = PyStr(<<"u","s","e","r">>)

\* a record with an upper-case role tag signed in with that tag
C24_WitnessTagKept ==
    /\ LoginMatched
    /\ StoredRole(last.req.data) = PyStr(<<"A","D","M","I","N">>)
    /\ last.resp.data.user.perfil = PyStr(<<"A","D","M","I","N">>)

\* a record with the numeric role tag 0 signed in as "user"
C24_WitnessZero ==
    /\ LoginMatched
    /\ StoredRole(last.req.data) = PyInt(0)
    /\ last.resp.data.user.perfil = PyStr(<<"u","s","e","r">>)

(* --------------------- properties: role filter total ------------------- *)

\* C28 as claimed: for every unexpired token with a valid signature, a token
\* issued for a record whose role tag is a number included, the role filter
\* behind require_auth ends in the handler running or in 403; it never ends
\* in 500 ROLE_ERROR.
C28_Original ==
    (Guarded /\ PresentedValid /\ Len(last.route) >= 2
        /\ last.route[1] = AuthGuard /\ last.route[2].kind = "require_role")
    => /\ PassedGuard(2) \/ RejectedAt(2, 403, "INSUFFICIENT_ROLE")
       /\ last.answer.resp.status # 500
       /\ last.answer.resp.error_code # "ROLE_ERROR"

(* ---------------------- properties: validity window -------------------- *)

\* C25 as claimed: every token produced by login or by refresh has
\* exp = iat + the configured lifetime exactly, in whole seconds, and the
\* token just produced has iat equal to the clock when the request came in.
C25_Original ==
    /\ \A tok \in IssuedTokens : tok.body.exp.v = tok.body.iat.v + TtlSeconds
    /\ (last.op \in {"login", "refresh"} /\ last.resp.status = 200)
        => last.resp.data.token.body.iat.v = last.at \div TicksPerSecond

(* -------------------- properties: concurrent requests ------------------ *)

\* the answer worker w's request gets when it is served alone and reads the
\* clock at the same instants
AloneAnswer(w) ==
    route_answer(run_alone(reqs[w].route, 1, Entering, reqs[w].req, reqs[w].clocks),
                 reqs[w].clocks[Len(reqs[w].clocks)])

\* worker w's request has a populated identity context
Populated(w) == ctx[w] \notin {Unset, PyNone}

Renewed == last.op = "refresh" /\ last.resp.status = 200

\* C27: a refresh does not invalidate the token it is given: every token a
\* refresh has taken, like the token it returned, is accepted exactly until
\* its own expiry; the refresh asks the store nothing, copies the identity
\* claims, and returns a token that expires no earlier than the lifetime
\* after the refresh and no earlier than the token it was given
C27_RefreshKeepsInput ==
    /\ \A tok \in refreshed :
          /\ tok \in IssuedTokens
          /\ (verify_token(tok, now) # PyNone) <=> (now < ExpiresAt(tok))
    /\ (last.op = "verify" /\ BearerReq /\ Presented \in refreshed)
        => ((last.resp.status = 200) <=> (last.at < ExpiresAt(Presented)))
    /\ Renewed
        => /\ Presented \in refreshed
           /\ last.resp.data.token \in IssuedTokens
           /\ last.queries = 0
           /\ (verify_token(last.resp.data.token, now) # PyNone)
                <=> (now < ExpiresAt(last.resp.data.token))
           /\ last.resp.data.token.body.exp.v >= (last.at \div TicksPerSecond) + TtlSeconds
           /\ last.resp.data.token.body.exp.v >= Presented.body.exp.v
           /\ \A k \in ClaimKeys :
                 last.resp.data.token.body[k] = Presented.body[k]

\* a token is accepted by the verify endpoint after a refresh has taken it
\* and returned a token that expires later
C27_Witness ==
    /\ last.op = "verify" /\ last.resp.status = 200
    /\ BearerReq
    /\ Presented \in refreshed
    /\ \E tok \in IssuedTokens : ExpiresAt(tok) > ExpiresAt(Presented)

\* the token a refresh returned is accepted after the token the refresh was
\* given has expired
C27_WitnessProlonged ==
    /\ last.op = "verify" /\ last.resp.status = 200
    /\ BearerReq
    /\ \E old \in refreshed :
          /\ last.at >= ExpiresAt(old)
          /\ \A k \in ClaimKeys : old.body[k] = Presented.body[k]

\* a token is refused by the verify endpoint at its own expiry, a refresh
\* having taken it before
C27_WitnessOldExpired ==
    /\ last.op = "verify" /\ last.resp.status = 401
    /\ BearerReq
    /\ Presented \in refreshed

(* ---------------- properties: rejection leaves no identity ------------- *)

\* the request served last was rejected by require_auth
AuthRejected ==
    \/ last.op = "profile" /\ ~last.handlerRan
    \/ /\ Guarded /\ ~last.answer.handlerRan
       /\ last.answer.ran # <<>>
       /\ last.answer.ran[Len(last.answer.ran)] = "require_auth"

\* the identity context the request served last ended with
ContextLeft == IF Guarded THEN last.answer.g ELSE last.g

\* the response of the request served last
ResponseLeft == IF Guarded THEN last.answer.resp ELSE last.resp

\* C29: a request rejected by require_auth, for a missing header, a header
\* that is not a Bearer header or a token that fails verification, ends with
\* g.current_user unset and get_current_user returning None; the context is
\* populated only when verify_token returned the claims of the token
C29_RejectionLeavesContextUnset ==
    /\ AuthRejected
        => /\ ResponseLeft.status = 401
           /\ ResponseLeft.error_code
                \in {"MISSING_TOKEN", "INVALID_TOKEN_FORMAT", "INVALID_TOKEN"}
           /\ ContextLeft = Unset
           /\ get_current_user(ContextLeft) = PyNone
    /\ (last.op \in {"profile", "guarded"} /\ ContextLeft \notin {Unset, PyNone})
        => /\ BearerReq
           /\ verify_token(Presented, last.at) # PyNone
           /\ ContextLeft.token = Presented

\* a route behind require_auth is requested with an issued token that has
\* expired, and the request is rejected
C29_Witness ==
    /\ Guarded /\ AuthRejected
    /\ PresentedIssued
    /\ ResponseLeft.error_code = "INVALID_TOKEN"

\* a request without Authorization header is rejected
C29_WitnessMissing ==
    AuthRejected /\ ResponseLeft.error_code = "MISSING_TOKEN"

\* a request whose header is not a Bearer header is rejected
C29_WitnessFormat ==
    AuthRejected /\ ResponseLeft.error_code = "INVALID_TOKEN_FORMAT"

(* --------------------- properties: fallback service -------------------- *)

\* the initialisation of the service has failed and a mock is installed
MockInstalled == auth_service \in Fallbacks

\* no login is answered with a token, and a login that reaches the service
\* fails with SERVICE_UNAVAILABLE
LoginUnavailable ==
    last.op = "login"
    => /\ last.resp.status # 200
       /\ last.cause \notin {"content_type", "json", "empty", "validation", "exception"}
            => last.resp.error_code = "SERVICE_UNAVAILABLE"

\* no request passes require_auth, and verify accepts no token
GuardsClosed ==
    /\ last.op = "verify" => last.resp.status = 401
    /\ last.op = "profile" => ~last.handlerRan /\ last.resp.status = 401
    /\ (Guarded /\ \E j \in 1..Len(last.route) : last.route[j].kind = "require_auth")
        => ~last.answer.handlerRan

\* with a mock installed nothing is let in and no token is handed out,
\* whatever the refresh endpoint answers
FailClosed ==
    MockInstalled
    => /\ LoginUnavailable
       /\ GuardsClosed
       /\ last.op = "refresh" => last.resp.status \in {401, 500}

\* C30: with the mock service installed after a failed initialisation, every
\* login fails with SERVICE_UNAVAILABLE, verify_token and refresh_token
\* return no result, so that verify and refresh answer as for a token that is
\* not valid, no request passes require_auth and no token is issued
C30_Original ==
    MockInstalled
    => /\ LoginUnavailable
       /\ GuardsClosed
       /\ last.op = "refresh"
            => /\ last.resp.status = 401
               /\ last.resp.error_code \in {"MISSING_TOKEN", "INVALID_REFRESH_TOKEN"}

\* an issued token that has not expired is presented to a route behind
\* require_auth after the mock was installed
MockRefusesIssued ==
    /\ MockInstalled
    /\ last.op = "profile" /\ PresentedIssued /\ last.at < ExpiresAt(Presented)

\* a login with the credentials of an active user after the mock was installed
MockRefusesLogin ==
    /\ MockInstalled
    /\ last.op = "login" /\ last.resp.error_code = "SERVICE_UNAVAILABLE"

=============================================================================
